---- MODULE Spec2Model ----
(***************************************************************************)
(* Model of live-merge-up: the session tracker (checker.py), the merge     *)
(* coordinator (merger.py) and the advisory file lock (FileLock).          *)
(*                                                                         *)
(* The file system is the shared state: session directories with their     *)
(* segment files and manifests (filelist.txt), the output directory, the   *)
(* subtitle directory and the lock directory.  A lock file is modelled at  *)
(* the level of inodes: a path links to an inode, a process holds an open  *)
(* file on an inode, and flock() locks the inode, not the path.            *)
(***************************************************************************)
EXTENDS Integers, Sequences, FiniteSets, TLC

\* ------------------------------------------------------------ bounds
NumSessions == 2
NumProcs == 2

Sessions == 1..NumSessions
Procs == 1..NumProcs
\* An inode is live while a path links to it or a process holds it open.
Inodes == 1..(2 * NumProcs)

\* Recorder writes allowed in one behaviour, and tracker ticks.
MaxWrites == 2
MaxTicks == 6
\* Time of the tracker's first tick; segments present at start have mtime 0.
StartTime == 210

\* Validations of one segment counted by the history variable probes.
MaxProbes == 2

\* ------------------------------------------------------------ config.py
CHECK_INTERVAL == 30
LIVE_INACTIVE_THRESHOLD == 90
LIVE_CHECK_INTERVAL == 60
MIN_FILES_FOR_CHECK == 5
FILE_STABLE_TIME == 5
EXTENDED_INACTIVE_MULTIPLIER == 1
MIN_FOLDER_AGE_FOR_FINALIZE == 30
MAX_CONCURRENT_FOLDERS == 5
MAX_WORKERS == 1
FOLDER_CLEANUP_DELAY == 60
ENABLE_SUBTITLE_BASED_MERGE == TRUE
\* checker.py line 440: subtitle checks after which a session counts as
\* having no subtitle.
SUBTITLE_CHECK_LIMIT == 5

\* FINAL_INACTIVE_THRESHOLD is read by checker.py (lines 66, 421) and set
\* nowhere in the sources at hand; the documented inactivity window of 90 s
\* is taken for it.
FINAL_INACTIVE_THRESHOLD == LIVE_INACTIVE_THRESHOLD

MaxSegs == MIN_FILES_FOR_CHECK + MaxWrites

\* An output or lock name: <<f>> for a session merged alone,
\* <<f, g>> for "<f>_<g>_merged".
Names == {<<f>> : f \in Sessions} \cup {x \in Sessions \X Sessions : x[1] # x[2]}

VARIABLES
    \* ---- file system
    dirOrder,     \* the session directories, oldest modification time first
    dirDay,       \* dirDay[f]: days from the date in f's name to the date f was last modified
    segs,         \* segs[f][i]: modification time of segment i of session f
    globOrder,    \* the order in which a directory listing yields segments
    others,       \* directories beside the sessions: no segments, no manifest, newer than the sessions
    bad,          \* the segments <<f, i>> ffprobe finds no video or audio in
    filelist,     \* filelist[f]: the manifest of session f
    report,       \* report[f]: the error report <f>_log.txt
    is_live,      \* is_live.txt says is_live=True
    sub,          \* sub[f]: the subtitle file <f>.ass exists
    outputs,      \* the names n whose output file <n>.mp4 exists
    tempMerged,   \* tempMerged[n]: lines of temp_merged/<n>.txt (<<>>: absent or empty)
    linked,       \* linked[n]: inode the lock path of n links to (0: no file)
    flockOwner,   \* flockOwner[i]: process whose open file holds flock on inode i
    lockText,     \* lockText[i]: pid written in the lock file (0: empty)
    \* ---- tracker process (checker.main_loop)
    now,                      \* time.time()
    folder_states,            \* session -> tracking record
    merge_called,
    subtitle_check_count,     \* session -> number of subtitle checks
    writes,                   \* recorder writes so far
    firstSeen,                \* history: time of the first tick that saw f (-1: none)
    quietTicks,               \* history: ticks in a row that had f among their folders and
                              \*          read the live signal as off and the files as quiet
    sawActiveSibling,         \* history: a tick saw f unfinalized beside an active newer session
    probes,                   \* history: probes[f][i]: validations of segment i of f so far
    crashed,                  \* an exception has left main_loop
    raised,                   \* the session whose processing raised in the latest tick (0: none)
    decision,                 \* <<all_folders, branch>> of a tick that has not acted yet (<<>>: none)
    pool,                     \* the thread pool of a check in progress
    manifest_out,             \* the manifest finalize_live_check has open for writing
    \* ---- merger processes
    pc,           \* pc[p]: position of process p in merge_all_ready / merge_item
    items,        \* items[p]: ready_items still to be merged in this pass
    count,        \* count[p]: success_count of the pass
    retval,       \* retval[p]: value merge_item is about to return
    fd,           \* fd[p]: inode of self.lock_file (0: none open)
    \* ---- uploader processes (upload_youtube.upload_all_pending_videos)
    upPc,            \* upPc[p]: position of process p in upload_all_pending_videos
    upFd,            \* upFd[p]: inode of self.lock_file of the upload lock (0: none open)
    upLinked,        \* inode upload_global.lock links to (0: no file)
    upOwner,         \* upOwner[i]: process whose open file holds flock on inode i
    pending_files,   \* pending_files[p]: the outputs p has still to handle
    uploaded,        \* the names n whose marker <n>.mp4.uploaded exists
    quotaExhausted,  \* quotaExhausted[p]: LAST_QUOTA_EXHAUSTED_DATE of p is today
    uploadCount,     \* history: uploadCount[n]: uploads of <n>.mp4 that succeeded
    \* ---- history (not read by the program)
    succCount,    \* succCount[n]: oracle successes for n since <n>.mp4 was last absent
    usedIn,       \* usedIn[f]: names of the outputs produced from f's manifest
    reused,       \* reused[f]: f went into another output after a combined one
    settled,      \* a pass merged every unit and nothing was finalized/removed since
    passClean,    \* passClean[p]: p's pass started while settled, still undisturbed
    fresh,        \* fresh[p]: nothing was finalized or removed since p's scan
    okPass,       \* okPass[p]: every merge_item of p's pass so far returned True
    failed        \* the names whose latest oracle run failed

fsVars == <<dirOrder, dirDay, filelist, sub, outputs, tempMerged>>
upVars == <<upPc, upFd, upLinked, upOwner, pending_files, uploaded, quotaExhausted, uploadCount>>
segVars == <<segs, globOrder, others, upVars, bad, report, is_live, writes>>
trackVars == <<now, folder_states, merge_called,
               subtitle_check_count, firstSeen, quietTicks, sawActiveSibling, probes,
               crashed, raised, decision, pool, manifest_out>>
lockVars == <<linked, flockOwner, lockText, fd>>
procVars == <<pc, items, count, retval>>
histVars == <<succCount, usedIn, reused, settled, passClean, fresh, okPass, failed>>
vars == <<fsVars, segVars, trackVars, lockVars, procVars, histVars>>

NoFile == [exists |-> FALSE, lines |-> <<>>]
NoPool == [phase |-> "idle", f |-> 0, todo |-> <<>>, pending |-> <<>>, running |-> {},
           finished |-> {}, futures |-> {},
           st |-> [checked_files |-> {}, valid_files |-> <<>>, error_logs |-> <<>>,
                   last_check |-> 0, creation_time |-> 0]]
\* No manifest is open for writing.
NoManifest == [f |-> 0, lines |-> <<>>]
NoReport == [exists |-> FALSE, total |-> 0, valid |-> 0, invalid |-> 0, reasons |-> <<>>]

\* ------------------------------------------------------------ merger.py

\* The manifests as the file system shows them: filelist holds the manifests
\* that were written and closed; the one finalize_live_check has opened with
\* open(filelist_txt, "w") (checker.py 294) exists from then on, with the
\* lines that have left the write buffer so far.
OnDisk ==
    [f \in Sessions |->
        IF f = manifest_out.f THEN [exists |-> TRUE, lines |-> manifest_out.lines]
        ELSE filelist[f]]

\* The directories by modification time: creating the manifest makes its
\* session directory the most recently modified one.
OnDiskOrder ==
    IF manifest_out.f = 0 THEN dirOrder
    ELSE SelectSeq(dirOrder, LAMBDA g : g # manifest_out.f) \o <<manifest_out.f>>

\* should_merge_folders: the first has a subtitle, the second has none.
\* sb: the subtitle files that exist, each in the directory of the date in
\* the session's name, where the tracker looks for it and links it
\* (checker.py 91-113); the sessions of the model carry the same date.  The
\* merger looks for both files in the directory of the date on which
\* folder1 was last modified (lines 59-69).
should_merge_folders(sb, folder1, folder2) ==
    IF ~ENABLE_SUBTITLE_BASED_MERGE THEN FALSE
    ELSE LET sub1 == sb[folder1] /\ dirDay[folder1] = 0
             sub2 == sb[folder2] /\ dirDay[folder1] = 0
         IN sub1 /\ ~sub2

\* Lines of a session's manifest, tagged with the session.
TaggedLines(fl, f) ==
    [i \in 1..Len(fl[f].lines) |-> <<f, fl[f].lines[i]>>]

\* create_merged_filelist: folder1's lines, then folder2's lines.
create_merged_filelist(fl, folder1, folder2) ==
    TaggedLines(fl, folder1) \o TaggedLines(fl, folder2)

\* A variant that does not look for the manifest.
candidate_folders_any(order, fl, outs) ==
    SelectSeq(order, LAMBDA f : <<f>> \notin outs)

\* find_ready_folders, lines 95-104: manifest present, <name>.mp4 absent,
\* sorted by directory modification time.
candidate_folders(order, fl, outs) ==
    SelectSeq(order, LAMBDA f : fl[f].exists /\ <<f>> \notin outs)

\* find_ready_folders, lines 106-134: the pairing loop.
RECURSIVE Pairing(_, _)
Pairing(sb, c) ==
    IF c = <<>> THEN <<>>
    ELSE IF Len(c) >= 2 /\ should_merge_folders(sb, c[1], c[2])
         THEN <<[type |-> "merged", folders |-> <<c[1], c[2]>>]>>
                  \o Pairing(sb, SubSeq(c, 3, Len(c)))
         ELSE <<[type |-> "single", folders |-> <<c[1]>>]>>
                  \o Pairing(sb, Tail(c))

find_ready_folders(order, fl, outs, sb) ==
    Pairing(sb, candidate_folders(order, fl, outs))

\* The names of the combined units of a scan.
MergedNames(ready) ==
    {ready[i].folders : i \in {j \in 1..Len(ready) : ready[j].type = "merged"}}

\* create_merged_filelist, lines 82-84: open(merged_file, 'w') empties the
\* file of every combined unit of the scan.
TruncatedAfterScan(ready) ==
    [n \in Names |-> IF n \in MergedNames(ready) THEN <<>> ELSE tempMerged[n]]

\* The merged manifests a scan leaves in temp_merged.
MergedAfterScan(ready, fl) ==
    [n \in Names |->
        IF \E i \in 1..Len(ready) : ready[i].type = "merged" /\ ready[i].folders = n
        THEN create_merged_filelist(fl, n[1], n[2])
        ELSE tempMerged[n]]

ItemName(item) == item.folders

\* item['filelist'].exists(), merge_item line 145
ItemFilelistExists(item) ==
    IF item.type = "merged"
    THEN \/ tempMerged[ItemName(item)] # <<>>
         \/ \E q \in Procs : pc[q] = "scan" /\ ItemName(item) \in MergedNames(items[q])
    ELSE OnDisk[item.folders[1]].exists

LiveInodes(lk, f) ==
    ({lk[n] : n \in Names} \cup {f[p] : p \in Procs}) \ {0}

FreshInode ==
    CHOOSE i \in Inodes : i \notin LiveInodes(linked, fd)
                          /\ \A j \in Inodes : j \notin LiveInodes(linked, fd) => i <= j

CurItem(p) == Head(items[p])
CurName(p) == ItemName(CurItem(p))

\* merge_item returns b: merge_all_ready counts it and moves to the next item.
Return(p, b) ==
    /\ count' = [count EXCEPT ![p] = IF b THEN @ + 1 ELSE @]
    /\ okPass' = [okPass EXCEPT ![p] = @ /\ b]
    /\ items' = [items EXCEPT ![p] = Tail(@)]
    /\ pc' = [pc EXCEPT ![p] = IF Tail(items[p]) = <<>> THEN "done" ELSE "item"]

\* A variant that writes the combined manifest over the first session's own.
MergeAllReadyInPlace(p) ==
    /\ pc[p] = "idle"
    /\ LET ready == find_ready_folders(OnDiskOrder, OnDisk, outputs, sub) IN
        /\ items' = [items EXCEPT ![p] = ready]
        /\ tempMerged' = TruncatedAfterScan(ready)
        /\ filelist' = [f \in Sessions |->
              IF \E i \in 1..Len(ready) : ready[i].type = "merged" /\ ready[i].folders[1] = f
              THEN [exists |-> TRUE,
                    lines |-> filelist[f].lines
                                \o filelist[CHOOSE g \in Sessions : <<f, g>> \in
                                      {ready[i].folders : i \in 1..Len(ready)}].lines]
              ELSE filelist[f]]
        /\ pc' = [pc EXCEPT ![p] = IF ready = <<>> THEN "done"
                                   ELSE IF MergedNames(ready) # {} THEN "scan"
                                   ELSE "item"]
    /\ count' = [count EXCEPT ![p] = 0]
    /\ okPass' = [okPass EXCEPT ![p] = TRUE]
    /\ passClean' = [passClean EXCEPT ![p] = settled]
    /\ fresh' = [fresh EXCEPT ![p] = TRUE]
    /\ UNCHANGED <<dirOrder, dirDay, sub, outputs, lockVars, retval,
                   succCount, usedIn, reused, settled, failed>>
    /\ UNCHANGED <<segVars, trackVars>>

\* merge_all_ready, lines 192-200: scan, and open the merged manifests of the
\* combined units for writing.
MergeAllReady(p) ==
    /\ pc[p] = "idle"
    /\ LET ready == find_ready_folders(OnDiskOrder, OnDisk, outputs, sub) IN
        /\ items' = [items EXCEPT ![p] = ready]
        /\ tempMerged' = TruncatedAfterScan(ready)
        /\ pc' = [pc EXCEPT ![p] = IF ready = <<>> THEN "done"
                                   ELSE IF MergedNames(ready) # {} THEN "scan"
                                   ELSE "item"]
    /\ count' = [count EXCEPT ![p] = 0]
    /\ okPass' = [okPass EXCEPT ![p] = TRUE]
    /\ passClean' = [passClean EXCEPT ![p] = settled]
    /\ fresh' = [fresh EXCEPT ![p] = TRUE]
    /\ UNCHANGED <<dirOrder, dirDay, filelist, sub, outputs, lockVars, retval,
                   succCount, usedIn, reused, settled, failed>>
    /\ UNCHANGED <<segVars, trackVars>>

\* create_merged_filelist, lines 85-86: the lines of both manifests are
\* written and the merged manifest is closed; find_ready_folders returns.
CreateMergedFilelist(p) ==
    /\ pc[p] = "scan"
    /\ tempMerged' = MergedAfterScan(items[p], OnDisk)
    /\ pc' = [pc EXCEPT ![p] = "item"]
    /\ UNCHANGED <<dirOrder, dirDay, filelist, sub, outputs, lockVars, items, count, retval,
                   histVars>>
    /\ UNCHANGED <<segVars, trackVars>>

\* merge_item, lines 145-151: the checks made without the lock.
MergeItemCheck(p) ==
    /\ pc[p] = "item"
    /\ IF ~ItemFilelistExists(CurItem(p)) THEN Return(p, FALSE)
       ELSE IF CurName(p) \in outputs THEN Return(p, TRUE)
       ELSE /\ pc' = [pc EXCEPT ![p] = "open"]
            /\ UNCHANGED <<items, count, okPass>>
    /\ UNCHANGED <<fsVars, lockVars, retval, succCount, usedIn, reused, settled, passClean, fresh, failed>>
    /\ UNCHANGED <<segVars, trackVars>>

\* FileLock.__enter__, line 30: open(path, 'w') creates or truncates.
LockOpen(p) ==
    /\ pc[p] = "open"
    /\ LET n == CurName(p)
           i == IF linked[n] # 0 THEN linked[n] ELSE FreshInode
       IN /\ linked' = [linked EXCEPT ![n] = i]
          /\ fd' = [fd EXCEPT ![p] = i]
          /\ lockText' = [lockText EXCEPT ![i] = 0]
          /\ flockOwner' = IF linked[n] # 0 THEN flockOwner
                           ELSE [flockOwner EXCEPT ![i] = 0]
    /\ pc' = [pc EXCEPT ![p] = "flock"]
    /\ UNCHANGED <<fsVars, items, count, retval, histVars>>
    /\ UNCHANGED <<segVars, trackVars>>

\* A variant in which the release runs to its end after a failed flock and
\* deletes the lock file.
LockFlockFailureUnlinks(p) ==
    /\ pc[p] = "flock"
    /\ IF flockOwner[fd[p]] = 0
       THEN /\ flockOwner' = [flockOwner EXCEPT ![fd[p]] = p]
            /\ pc' = [pc EXCEPT ![p] = "write"]
            /\ UNCHANGED <<fd, linked, lockText, items, count, okPass>>
       ELSE /\ fd' = [fd EXCEPT ![p] = 0]
            /\ linked' = [linked EXCEPT ![CurName(p)] = 0]
            /\ flockOwner' = [i \in Inodes |->
                  IF i \in LiveInodes(linked', fd') THEN flockOwner[i] ELSE 0]
            /\ lockText' = [i \in Inodes |->
                  IF i \in LiveInodes(linked', fd') THEN lockText[i] ELSE 0]
            /\ Return(p, FALSE)
    /\ UNCHANGED <<fsVars, retval, succCount, usedIn, reused, settled, passClean, fresh, failed>>
    /\ UNCHANGED <<segVars, trackVars>>

\* FileLock.__enter__, line 32: flock(LOCK_EX | LOCK_NB).  On failure lines
\* 37-40 close the file; __exit__ then fails on the closed file (line 46,
\* swallowed at line 51) and merge_item returns False at line 157.
LockFlock(p) ==
    /\ pc[p] = "flock"
    /\ IF flockOwner[fd[p]] = 0
       THEN /\ flockOwner' = [flockOwner EXCEPT ![fd[p]] = p]
            /\ pc' = [pc EXCEPT ![p] = "write"]
            /\ UNCHANGED <<fd, lockText, items, count, okPass>>
       ELSE /\ fd' = [fd EXCEPT ![p] = 0]
            /\ flockOwner' = [i \in Inodes |->
                  IF i \in LiveInodes(linked, fd') THEN flockOwner[i] ELSE 0]
            /\ lockText' = [i \in Inodes |->
                  IF i \in LiveInodes(linked, fd') THEN lockText[i] ELSE 0]
            /\ Return(p, FALSE)
    /\ UNCHANGED <<fsVars, linked, retval, succCount, usedIn, reused, settled, passClean, fresh, failed>>
    /\ UNCHANGED <<segVars, trackVars>>

\* FileLock.__enter__, lines 34-35: write the pid and flush.
LockWrite(p) ==
    /\ pc[p] = "write"
    /\ lockText' = [lockText EXCEPT ![fd[p]] = p]
    /\ pc' = [pc EXCEPT ![p] = "recheck"]
    /\ UNCHANGED <<fsVars, linked, flockOwner, fd, items, count, retval, histVars>>
    /\ UNCHANGED <<segVars, trackVars>>

\* A variant without the second check: the oracle is started in any case.
MergeItemRecheckSkipped(p) ==
    /\ pc[p] = "recheck"
    /\ pc' = [pc EXCEPT ![p] = "oracle"]
    /\ UNCHANGED <<fsVars, lockVars, items, count, retval, histVars>>
    /\ UNCHANGED <<segVars, trackVars>>

\* merge_item, lines 160-162: the check repeated under the lock.
MergeItemRecheck(p) ==
    /\ pc[p] = "recheck"
    /\ IF CurName(p) \in outputs
       THEN /\ retval' = [retval EXCEPT ![p] = TRUE]
            /\ pc' = [pc EXCEPT ![p] = "unlock"]
       ELSE /\ pc' = [pc EXCEPT ![p] = "oracle"]
            /\ UNCHANGED retval
    /\ UNCHANGED <<fsVars, lockVars, items, count, histVars>>
    /\ UNCHANGED <<segVars, trackVars>>

\* merge_item, line 181: ffmpeg is started.
OracleStart(p) ==
    /\ pc[p] = "oracle"
    /\ pc' = [pc EXCEPT ![p] = "running"]
    /\ UNCHANGED <<fsVars, lockVars, items, count, retval, histVars>>
    /\ UNCHANGED <<segVars, trackVars>>

\* A variant in which a failed run leaves its partial output file in place.
OracleEndKeepsOutput(p) ==
    /\ pc[p] = "running"
    /\ \E ok \in BOOLEAN :
        /\ retval' = [retval EXCEPT ![p] = ok]
        /\ outputs' = outputs \cup {CurName(p)}
        /\ succCount' = IF ok THEN [succCount EXCEPT ![CurName(p)] = IF @ < 2 THEN @ + 1 ELSE @]
                        ELSE succCount
        /\ usedIn' = IF ok
                     THEN [f \in Sessions |->
                            IF \E k \in 1..Len(CurName(p)) : CurName(p)[k] = f
                            THEN usedIn[f] \cup {CurName(p)} ELSE usedIn[f]]
                     ELSE usedIn
        /\ reused' = [f \in Sessions |->
                        reused[f] \/ (/\ ok
                                      /\ \E k \in 1..Len(CurName(p)) : CurName(p)[k] = f
                                      /\ \E m \in usedIn[f] : Len(m) = 2 /\ m # CurName(p))]
        /\ failed' = IF ok THEN failed \ {CurName(p)} ELSE failed \cup {CurName(p)}
    /\ pc' = [pc EXCEPT ![p] = "unlock"]
    /\ UNCHANGED <<dirOrder, dirDay, filelist, sub, tempMerged, lockVars, items, count,
                   settled, passClean, fresh, okPass>>
    /\ UNCHANGED <<segVars, trackVars>>

\* merge_item, lines 181-188: ffmpeg ends; exit status 0 means the output
\* file has been produced.  Nothing else is written on success.
OracleEnd(p) ==
    /\ pc[p] = "running"
    /\ \E ok \in BOOLEAN :
        /\ retval' = [retval EXCEPT ![p] = ok]
        /\ outputs' = IF ok THEN outputs \cup {CurName(p)} ELSE outputs
        /\ succCount' = IF ok THEN [succCount EXCEPT ![CurName(p)] = IF @ < 2 THEN @ + 1 ELSE @]
                        ELSE succCount
        /\ usedIn' = IF ok
                     THEN [f \in Sessions |->
                            IF \E k \in 1..Len(CurName(p)) : CurName(p)[k] = f
                            THEN usedIn[f] \cup {CurName(p)} ELSE usedIn[f]]
                     ELSE usedIn
        /\ reused' = [f \in Sessions |->
                        reused[f] \/ (/\ ok
                                      /\ \E k \in 1..Len(CurName(p)) : CurName(p)[k] = f
                                      /\ \E m \in usedIn[f] : Len(m) = 2 /\ m # CurName(p))]
        /\ failed' = IF ok THEN failed \ {CurName(p)} ELSE failed \cup {CurName(p)}
    /\ pc' = [pc EXCEPT ![p] = "unlock"]
    /\ UNCHANGED <<dirOrder, dirDay, filelist, sub, tempMerged, lockVars, items, count,
                   settled, passClean, fresh, okPass>>
    /\ UNCHANGED <<segVars, trackVars>>

\* FileLock.__exit__, lines 46-47: flock(LOCK_UN), close().
LockUnlock(p) ==
    /\ pc[p] = "unlock"
    /\ fd' = [fd EXCEPT ![p] = 0]
    /\ flockOwner' = [i \in Inodes |->
          IF i \in LiveInodes(linked, fd') /\ flockOwner[i] # p THEN flockOwner[i] ELSE 0]
    /\ lockText' = [i \in Inodes |->
          IF i \in LiveInodes(linked, fd') THEN lockText[i] ELSE 0]
    /\ pc' = [pc EXCEPT ![p] = "unlink"]
    /\ UNCHANGED <<fsVars, linked, items, count, retval, histVars>>
    /\ UNCHANGED <<segVars, trackVars>>

\* FileLock.__exit__, lines 49-50: delete whatever file the lock path names,
\* then merge_item returns.
LockUnlink(p) ==
    /\ pc[p] = "unlink"
    /\ linked' = [linked EXCEPT ![CurName(p)] = 0]
    /\ flockOwner' = [i \in Inodes |->
          IF i \in LiveInodes(linked', fd) THEN flockOwner[i] ELSE 0]
    /\ lockText' = [i \in Inodes |->
          IF i \in LiveInodes(linked', fd) THEN lockText[i] ELSE 0]
    /\ Return(p, retval[p])
    /\ UNCHANGED <<fsVars, fd, retval, succCount, usedIn, reused, settled, passClean, fresh, failed>>
    /\ UNCHANGED <<segVars, trackVars>>

\* Process p ends while it holds the lock of its unit, without running
\* FileLock.__exit__ (lines 42-52): it is killed, or the machine stops, and
\* it is started again later.  The system closes its descriptor, which
\* releases the flock; the lock file stays.  When ffmpeg was running (line
\* 181), it ends with the process: the output file it had begun is left
\* behind, or it had not been created yet.  The events of the environment
\* are counted in writes.
Kill(p) ==
    /\ writes < MaxWrites
    /\ pc[p] \in {"write", "recheck", "oracle", "running", "unlock"}
    /\ writes' = writes + 1
    /\ fd' = [fd EXCEPT ![p] = 0]
    /\ flockOwner' = [i \in Inodes |->
          IF i \in LiveInodes(linked, fd') /\ flockOwner[i] # p THEN flockOwner[i] ELSE 0]
    /\ lockText' = [i \in Inodes |->
          IF i \in LiveInodes(linked, fd') THEN lockText[i] ELSE 0]
    /\ \E begun \in BOOLEAN :
          outputs' = IF pc[p] = "running" /\ begun THEN outputs \cup {CurName(p)}
                     ELSE outputs
    /\ pc' = [pc EXCEPT ![p] = "idle"]
    /\ items' = [items EXCEPT ![p] = <<>>]
    /\ count' = [count EXCEPT ![p] = 0]
    /\ retval' = [retval EXCEPT ![p] = FALSE]
    /\ UNCHANGED <<dirOrder, dirDay, filelist, sub, tempMerged, linked,
                   segs, globOrder, others, upVars, bad, report, is_live, trackVars, histVars>>

\* merge_item, lines 181-185: ffmpeg ends with exit status 0.
OracleSucceeds(p) ==
    OracleEnd(p) /\ retval'[p]

\* merge_all_ready, lines 194-196 and 205-206: the pass returns its count.
MergeReturn(p) ==
    /\ pc[p] = "done"
    /\ pc' = [pc EXCEPT ![p] = "idle"]
    /\ settled' = (settled \/ (okPass[p] /\ fresh[p]))
    /\ UNCHANGED <<fsVars, lockVars, items, count, retval, succCount, usedIn, reused,
                   passClean, fresh, okPass, failed>>
    /\ UNCHANGED <<segVars, trackVars>>


\* ------------------------------------------------------------ checker.py

Range(q) == {q[k] : k \in 1..Len(q)}
Max(S) == CHOOSE x \in S : \A y \in S : y <= x
SegIds(f) == 1..Len(segs[f])
LatestMtime(f) == Max({segs[f][i] : i \in SegIds(f)})

\* find_all_live_folders: the directories, temp_ ones excluded, by mtime.
find_all_live_folders == dirOrder

\* A variant that looks for the merged output instead of the manifest.
has_been_merged_output(fl, f) == <<f>> \in outputs

has_been_merged(fl, f) == fl[f].exists

\* A variant that lets a session one segment short of the minimum through.
has_files_to_check_short(f) == Len(segs[f]) >= MIN_FILES_FOR_CHECK - 1

has_files_to_check(f) == Len(segs[f]) >= MIN_FILES_FOR_CHECK

all_folders_completed(fl, folders) ==
    folders # <<>> /\ \A k \in 1..Len(folders) : has_been_merged(fl, folders[k])

\* A variant that takes every file for stable.
is_file_stable_any(f, i) == i \in SegIds(f)

is_file_stable(f, i) == now - segs[f][i] > FILE_STABLE_TIME

is_live_active(f) ==
    IF segs[f] = <<>> THEN FALSE
    ELSE now - LatestMtime(f) <= LIVE_INACTIVE_THRESHOLD

\* A variant that is satisfied by one quiet session among the folders.
is_really_stream_ended_any(folders, grace_period) ==
    \E k \in 1..Len(folders) :
        \/ segs[folders[k]] = <<>>
        \/ ~(now - LatestMtime(folders[k]) <= grace_period)

is_really_stream_ended(folders, grace_period) ==
    \A k \in 1..Len(folders) :
        \/ segs[folders[k]] = <<>>
        \/ ~(now - LatestMtime(folders[k]) <= grace_period)

\* has_matching_subtitle_file: the exact file, or any subtitle of the same
\* day ("<date> Showroom*.ass"), to which the exact name is then linked.
\* The sessions of the model are of one day.
has_matching_subtitle_file(f) ==
    sub[f] \/ \E g \in Sessions : sub[g]

SubAfterCheck(f) ==
    IF has_matching_subtitle_file(f) THEN [sub EXCEPT ![f] = TRUE] ELSE sub

\* min(..., key=st_ctime): a directory's change time moves with its
\* modification time, so the earliest is the first in mtime order (0: None).
get_earliest_active_folder(folders) ==
    LET active == SelectSeq(folders, is_live_active)
    IN IF active = <<>> THEN 0 ELSE active[1]

\* check_ts_file: both a video and an audio stream are found.
check_ts_file(f, i) == <<f, i>> \notin bad

\* ts_dir.glob("*.ts") restricted to the segments S, in listing order.
GlobOrder(S) == SelectSeq(globOrder, LAMBDA i : i \in S)

get_unchecked_stable_files(f, checked_files) ==
    GlobOrder({i \in SegIds(f) : i \notin checked_files /\ is_file_stable(f, i)})

\* The result loop of check_live_folder_incremental (lines 246-259, mark =
\* TRUE) and of finalize_live_check (lines 277-285, mark = FALSE).  With
\* MAX_WORKERS = 1 the files are validated in submission order; the results
\* are recorded here in that order, which is one of the orders as_completed
\* can yield them in.
RECURSIVE CheckFiles(_, _, _, _)
CheckFiles(st, f, files, mark) ==
    IF files = <<>> THEN st
    ELSE LET i == Head(files)
             ok == check_ts_file(f, i)
             st1 == [st EXCEPT
                       !.checked_files = IF mark THEN @ \cup {i} ELSE @,
                       !.valid_files = IF ok THEN Append(@, i) ELSE @,
                       !.error_logs = IF ok THEN @ ELSE Append(@, i)]
         IN CheckFiles(st1, f, Tail(files), mark)

\* A variant that does not record the files it has checked.
check_live_folder_incremental_unmarked(f, st) ==
    CheckFiles(st, f, get_unchecked_stable_files(f, st.checked_files), FALSE)

check_live_folder_incremental(f, st) ==
    CheckFiles(st, f, get_unchecked_stable_files(f, st.checked_files), TRUE)

\* A variant that writes the valid files in the order they were recorded.
finalize_live_check_unsorted(f, st) ==
    LET unchecked == GlobOrder({i \in SegIds(f) : i \notin st.checked_files})
        st1 == CheckFiles(st, f, unchecked, FALSE)
    IN [ok |-> st1.valid_files # <<>>, state |-> st1]

\* A variant that writes the manifest whether or not a valid file was found.
finalize_live_check_always(f, st) ==
    LET unchecked == GlobOrder({i \in SegIds(f) : i \notin st.checked_files})
        st1 == CheckFiles(st, f, unchecked, FALSE)
    IN [ok |-> TRUE,
        state |-> [st1 EXCEPT !.valid_files = SortSeq(@, LAMBDA a, b : a < b)]]

\* A variant that leaves out the files that are not stable yet.
finalize_live_check_stable(f, st) ==
    LET unchecked == get_unchecked_stable_files(f, st.checked_files)
        st1 == CheckFiles(st, f, unchecked, FALSE)
    IN IF st1.valid_files = <<>>
       THEN [ok |-> FALSE, state |-> st1]
       ELSE [ok |-> TRUE,
             state |-> [st1 EXCEPT !.valid_files = SortSeq(@, LAMBDA a, b : a < b)]]

\* finalize_live_check: [ok, state]; ok = the manifest was written, and then
\* state.valid_files are its lines.
finalize_live_check(f, st) ==
    LET unchecked == GlobOrder({i \in SegIds(f) : i \notin st.checked_files})
        st1 == CheckFiles(st, f, unchecked, FALSE)
    IN IF st1.valid_files = <<>>
       THEN [ok |-> FALSE, state |-> st1]
       ELSE [ok |-> TRUE,
             state |-> [st1 EXCEPT !.valid_files = SortSeq(@, LAMBDA a, b : a < b)]]

\* The tracking record created on first observation (lines 323-329, 489-495).
NewFolderState ==
    [checked_files |-> {}, valid_files |-> <<>>, error_logs |-> <<>>,
     last_check |-> 0, creation_time |-> now]

StateOf(fs, f) == IF f \in DOMAIN fs THEN fs[f] ELSE NewFolderState

\* A variant that checks in every tick.
process_single_folder_eager(f, st) ==
    IF has_been_merged(filelist, f) THEN st
    ELSE IF ~has_files_to_check(f) THEN st
    ELSE [check_live_folder_incremental(f, st) EXCEPT !.last_check = now]

process_single_folder(f, st) ==
    IF has_been_merged(filelist, f) THEN st
    ELSE IF ~has_files_to_check(f) THEN st
    ELSE IF now - st.last_check >= LIVE_CHECK_INTERVAL
         THEN [check_live_folder_incremental(f, st) EXCEPT !.last_check = now]
         ELSE st

\* A variant that removes only the records of finalized sessions.
cleanup_finalized_states(fs, active_folders, fl) ==
    [f \in {g \in DOMAIN fs : ~has_been_merged(fl, g)} |-> fs[f]]

cleanup_old_folder_states(fs, active_folders, fl) ==
    LET remove == {f \in DOMAIN fs :
                      \/ f \notin Range(active_folders)
                         /\ now - fs[f].last_check > FOLDER_CLEANUP_DELAY
                      \/ has_been_merged(fl, f)}
    IN [f \in DOMAIN fs \ remove |-> fs[f]]

\* Entries a tracking record holds for segment i: every validation appends
\* one, to valid_files or to error_logs (lines 250-259, 281-285).
Entries(st, i) ==
    Cardinality({k \in 1..Len(st.valid_files) : st.valid_files[k] = i})
    + Cardinality({k \in 1..Len(st.error_logs) : st.error_logs[k] = i})

\* main_loop, lines 401-406 (PROCESS_ALL_FOLDERS).
\* The list is the unfinished sessions followed by the other directories,
\* which find_all_live_folders lists as well (lines 12-18) and which have no
\* manifest; all_folders is the sessions that are left in it after line 405.
all_folders ==
    LET unfinished == SelectSeq(find_all_live_folders,
                                LAMBDA f : ~has_been_merged(filelist, f))
        n == Len(unfinished) + others
    IN IF n > MAX_CONCURRENT_FOLDERS
       THEN IF others >= MAX_CONCURRENT_FOLDERS THEN <<>>
            ELSE SubSeq(unfinished, n - MAX_CONCURRENT_FOLDERS + 1, Len(unfinished))
       ELSE unfinished

\* main_loop, line 414: the list is empty.
NoFolders == all_folders = <<>> /\ others = 0

\* A variant that goes by the live signal and the subtitle alone.
TickBranchBySignal(is_streaming, files_active, subtitle_exists) ==
    IF is_streaming THEN "process"
    ELSE IF subtitle_exists THEN "finalize"
    ELSE "wait"

\* main_loop, lines 453, 480, 510: the branch a tick takes.
TickBranch(is_streaming, files_active, subtitle_exists) ==
    IF is_streaming \/ files_active THEN "process"
    ELSE IF subtitle_exists THEN "finalize"
    ELSE "wait"

\* main_loop, line 486: the sessions the finalize branch finalizes.
ToFinalize(folders) ==
    {f \in Range(folders) : ~has_been_merged(filelist, f) /\ has_files_to_check(f)}

\* Position of session f in folders.
Pos(folders, f) == CHOOSE k \in 1..Len(folders) : folders[k] = f

\* What one tick does with session f: the tracking record after the call of
\* process_single_folder (lines 463-465) or finalize_live_check (lines
\* 486-502), and whether a manifest was written.  fault is the session whose
\* processing raises an exception in this tick (0: none), after its tracking
\* record has been created: in the process branch the exception is caught
\* (lines 473-475) and the loop goes on; in the finalize branch nothing
\* catches it and the sessions after it are not reached.
SessionOutcome(f, folders, branch, fault) ==
    LET st == StateOf(folder_states, f)
        untouched == [touched |-> FALSE, ok |-> FALSE, state |-> st]
        aborted == [touched |-> TRUE, ok |-> FALSE, state |-> st]
    IN IF f \in Range(folders) /\ branch = "process"
       THEN IF f = fault THEN aborted
            ELSE [touched |-> TRUE, ok |-> FALSE, state |-> process_single_folder(f, st)]
       ELSE IF branch = "finalize" /\ f \in ToFinalize(folders)
       THEN IF f = fault THEN aborted
            ELSE IF fault # 0 /\ Pos(folders, f) > Pos(folders, fault) THEN untouched
            ELSE LET r == finalize_live_check(f, st)
                 IN [touched |-> TRUE, ok |-> r.ok, state |-> r.state]
       ELSE untouched

RECURSIVE Outcomes(_, _, _, _)
Outcomes(n, folders, branch, fault) ==
    IF n = 0 THEN <<>>
    ELSE Append(Outcomes(n - 1, folders, branch, fault),
                SessionOutcome(n, folders, branch, fault))

\* merge_once called from the tracker: a whole merge_all_ready pass.  A unit
\* whose lock another process holds is skipped (its lock file is truncated
\* by the attempt); the oracle succeeds for the units in okset.
MergeOnce(order, fl, sb) ==
    \E ready \in {find_ready_folders(order, fl, outputs, sb)} :
    \E need \in {{n \in {ready[i].folders : i \in 1..Len(ready)} :
                    n \notin outputs /\ (linked[n] = 0 \/ flockOwner[linked[n]] = 0)}} :
    \E busy \in {{n \in {ready[i].folders : i \in 1..Len(ready)} :
                    n \notin outputs /\ ~(linked[n] = 0 \/ flockOwner[linked[n]] = 0)}} :
    \E okset \in SUBSET need :
        /\ outputs' = outputs \cup okset
        /\ tempMerged' = MergedAfterScan(ready, fl)
        /\ linked' = [n \in Names |-> IF n \in need THEN 0 ELSE linked[n]]
        /\ lockText' = [i \in Inodes |->
              IF (\E n \in busy : linked[n] = i) \/ i \notin LiveInodes(linked', fd)
              THEN 0 ELSE lockText[i]]
        /\ flockOwner' = [i \in Inodes |->
              IF i \in LiveInodes(linked', fd) THEN flockOwner[i] ELSE 0]
        /\ succCount' = [n \in Names |->
              IF n \in okset /\ succCount[n] < 2 THEN succCount[n] + 1 ELSE succCount[n]]
        /\ usedIn' = [f \in Sessions |-> usedIn[f] \cup {n \in okset : f \in Range(n)}]
        /\ reused' = [f \in Sessions |->
              reused[f] \/ \E n \in okset :
                  f \in Range(n) /\ \E m \in usedIn[f] : Len(m) = 2 /\ m # n]
        /\ settled' = (settled \/ (okset = need /\ busy = {}))
        /\ failed' = (failed \ okset) \cup (need \ okset)
        /\ UNCHANGED <<fd, passClean, fresh, okPass>>

\* main_loop, line 421.
FilesActive(folders) == ~is_really_stream_ended(folders, FINAL_INACTIVE_THRESHOLD)

\* main_loop, lines 424-429 (0: None, or one of the other directories when
\* no session is listed: its subtitle check touches no session).
EarliestFolder(folders) ==
    IF folders = <<>> THEN 0
    ELSE IF FilesActive(folders) THEN get_earliest_active_folder(folders) ELSE folders[1]

\* main_loop, lines 433-436: the subtitle checks counted for the earliest folder.
SubtitleChecks(folders) ==
    IF EarliestFolder(folders) = 0 THEN 0
    ELSE IF EarliestFolder(folders) \in DOMAIN subtitle_check_count
         THEN subtitle_check_count[EarliestFolder(folders)] + 1
         ELSE 1

\* A variant that does not wait for the subtitle.
SubtitleExistsUngated(folders) ==
    EarliestFolder(folders) # 0

\* A variant that waits for the subtitle however often it was checked.
SubtitleExistsStrict(folders) ==
    IF EarliestFolder(folders) = 0 THEN FALSE
    ELSE has_matching_subtitle_file(EarliestFolder(folders))

\* main_loop, lines 431-444.
SubtitleExists(folders) ==
    IF EarliestFolder(folders) = 0 THEN FALSE
    ELSE has_matching_subtitle_file(EarliestFolder(folders))
         \/ SubtitleChecks(folders) >= SUBTITLE_CHECK_LIMIT

\* The branch the next tick takes ("none": no folder to work on, line 414).
CurrentBranch ==
    IF NoFolders THEN "none"
    ELSE TickBranch(is_live, FilesActive(all_folders), SubtitleExists(all_folders))

\* main_loop, lines 433-436: the subtitle counters after the check.
SubtitleCounts(folders) ==
    IF EarliestFolder(folders) = 0 THEN subtitle_check_count
    ELSE [f \in DOMAIN subtitle_check_count \cup {EarliestFolder(folders)} |->
            IF f = EarliestFolder(folders) THEN SubtitleChecks(folders)
            ELSE subtitle_check_count[f]]

\* main_loop, line 437: the subtitle files after has_matching_subtitle_file.
SubAfterTick(folders) ==
    IF EarliestFolder(folders) = 0 THEN sub ELSE SubAfterCheck(EarliestFolder(folders))

\* main_loop from the branch on (lines 453-522) for the folders af and the
\* branch chosen at lines 396-444; sub1 and counts1 are the subtitle files
\* and the subtitle counters after lines 431-444.  The processing of session
\* fault raises an exception (0: none does).
TickActs(fault, af, branch, sub1, counts1) ==
       LET escapes == fault # 0 /\ branch = "finalize" IN
       \E out \in {Outcomes(NumSessions, af, branch, fault)} :
       LET done == {f \in Sessions : out[f].ok}
           fs1 == [f \in {g \in Sessions : g \in DOMAIN folder_states \/ out[g].touched} |->
                      out[f].state]
           fl1 == [f \in Sessions |->
                     IF f \in done
                     THEN [exists |-> TRUE, lines |-> out[f].state.valid_files]
                     ELSE filelist[f]]
           rep1 == [f \in Sessions |->
                      IF f \in done /\ out[f].state.error_logs # <<>>
                      THEN [exists |-> TRUE,
                            total |-> Len(segs[f]),
                            valid |-> Len(out[f].state.valid_files),
                            invalid |-> Len(out[f].state.error_logs),
                            reasons |-> out[f].state.error_logs]
                      ELSE report[f]]
           order1 == SelectSeq(dirOrder, LAMBDA f : f \notin done)
                        \o SelectSeq(af, LAMBDA f : f \in done)
           merging == branch = "finalize" /\ ~escapes
                      /\ all_folders_completed(filelist', af) /\ others = 0
                      /\ ~merge_called
       IN /\ fault # 0 => IF branch = "process" THEN fault \in Range(af)
                          ELSE branch = "finalize" /\ fault \in ToFinalize(af)
          /\ crashed' = escapes
          /\ sub' = sub1
          /\ filelist' = fl1
          /\ report' = rep1
          /\ dirOrder' = order1
          /\ dirDay' = dirDay
          /\ merge_called' = IF branch = "finalize" THEN (merge_called \/ merging)
                             ELSE FALSE
          /\ IF merging THEN MergeOnce(dirOrder', filelist', sub')
             ELSE UNCHANGED <<outputs, tempMerged, linked, flockOwner, lockText,
                              fd, histVars>>
          /\ folder_states' = IF escapes THEN fs1
                               ELSE cleanup_old_folder_states(fs1, af, filelist')
          /\ subtitle_check_count' =
                IF escapes THEN counts1
                ELSE [f \in DOMAIN counts1 \cap Range(af) |-> counts1[f]]
          /\ firstSeen' = [f \in Sessions |->
                IF firstSeen[f] = -1 /\ f \in Range(af) THEN now ELSE firstSeen[f]]
          /\ quietTicks' = [f \in Sessions |->
                IF branch = "process" \/ f \notin Range(af) THEN 0
                ELSE IF quietTicks[f] < SUBTITLE_CHECK_LIMIT THEN quietTicks[f] + 1
                ELSE quietTicks[f]]
          /\ probes' = [f \in Sessions |-> [i \in 1..MaxSegs |->
                LET n == probes[f][i] + Entries(out[f].state, i)
                                 - Entries(StateOf(folder_states, f), i)
                IN IF n > MaxProbes THEN MaxProbes ELSE n]]
          /\ sawActiveSibling' = [f \in Sessions |->
                sawActiveSibling[f]
                \/ (f \in Range(af)
                    /\ \E g \in Range(dirOrder) : g > f /\ is_live_active(g))]

\* One iteration of main_loop (lines 394-524), the sleep included, in which
\* the processing of session fault raises an exception (0: none does).
Tick(fault) ==
    /\ decision = <<>>
    /\ ~crashed
    /\ now < StartTime + MaxTicks * CHECK_INTERVAL
    /\ fault # 0 => fault \in Range(all_folders)
    /\ raised' = fault
    /\ now' = now + CHECK_INTERVAL
    /\ UNCHANGED <<segs, globOrder, others, upVars, bad, is_live, writes, procVars, decision, pool>>
    /\ manifest_out' = NoManifest
    /\ IF NoFolders
       THEN /\ fault = 0
            /\ UNCHANGED <<fsVars, report, folder_states, merge_called,
                           subtitle_check_count, firstSeen, quietTicks, sawActiveSibling, probes,
                           crashed, linked, flockOwner, lockText, fd, histVars>>
       ELSE \E af \in {all_folders} :
            \E branch \in {CurrentBranch} :
            \E sub1 \in {SubAfterTick(af)} :
            \E counts1 \in {SubtitleCounts(af)} :
                TickActs(fault, af, branch, sub1, counts1)

\* main_loop, lines 394-444, when the recorder may write between the reading
\* of the signals and the work on the folders: the tick reads the live
\* signal, lists the folders, reads the file activity, checks the subtitle
\* of the earliest folder, and so settles the branch it will take.
TickDecide ==
    /\ decision = <<>>
    /\ ~crashed
    /\ now < StartTime + MaxTicks * CHECK_INTERVAL
    /\ decision' = <<all_folders, CurrentBranch>>
    /\ IF all_folders = <<>> THEN UNCHANGED <<sub, subtitle_check_count>>
       ELSE /\ sub' = SubAfterTick(all_folders)
            /\ subtitle_check_count' = SubtitleCounts(all_folders)
    /\ UNCHANGED <<dirOrder, dirDay, filelist, outputs, tempMerged, segVars, now, folder_states,
                   merge_called, firstSeen, quietTicks, sawActiveSibling, probes, crashed, raised,
                   pool, manifest_out, lockVars, procVars, histVars>>

\* main_loop, lines 453-524: the tick takes the branch it settled on.
TickAct ==
    /\ decision # <<>>
    /\ decision' = <<>>
    /\ raised' = 0
    /\ now' = now + CHECK_INTERVAL
    /\ UNCHANGED <<segs, globOrder, others, upVars, bad, is_live, writes, procVars, pool, manifest_out>>
    /\ IF decision[2] = "none"
       THEN UNCHANGED <<fsVars, report, folder_states, merge_called,
                        subtitle_check_count, firstSeen, quietTicks, sawActiveSibling, probes,
                        crashed, linked, flockOwner, lockText, fd, histVars>>
       ELSE \E af \in {decision[1]} :
            \E branch \in {decision[2]} :
                TickActs(0, af, branch, sub, subtitle_check_count)

\* A tick in which no exception is raised.
MainLoopTick == Tick(0)

\* A tick in which the processing of one session raises an exception.
MainLoopTickFault == \E g \in Sessions : Tick(g)

\* ------------------------------------------------------------ the manifest write

\* The sessions whose manifest the tick that starts now writes.
ManifestsDue ==
    IF all_folders = <<>> \/ CurrentBranch # "finalize" THEN {}
    ELSE {f \in ToFinalize(all_folders) :
             finalize_live_check(f, StateOf(folder_states, f)).ok}

\* finalize_live_check, line 294, reached from main_loop line 497 in the tick
\* that starts now: open(filelist_txt, "w") creates the manifest of session
\* f, with nothing in it yet.  In the runs that use this step a tick
\* finalizes one session.
ManifestOpen(f) ==
    /\ manifest_out = NoManifest
    /\ decision = <<>> /\ ~crashed
    /\ now < StartTime + MaxTicks * CHECK_INTERVAL
    /\ ManifestsDue = {f}
    /\ manifest_out' = [f |-> f, lines |-> <<>>]
    /\ UNCHANGED <<fsVars, segVars, now, folder_states, merge_called, subtitle_check_count,
                   firstSeen, quietTicks, sawActiveSibling, probes, crashed, raised, decision, pool,
                   lockVars, procVars, histVars>>

\* finalize_live_check, lines 295-296: the write buffer fills and the lines
\* written so far reach the file.
ManifestFlush ==
    /\ manifest_out.f # 0
    /\ \E all \in {finalize_live_check(manifest_out.f,
                        StateOf(folder_states, manifest_out.f)).state.valid_files} :
       \E k \in (Len(manifest_out.lines) + 1)..(Len(all) - 1) :
          manifest_out' = [manifest_out EXCEPT !.lines = SubSeq(all, 1, k)]
    /\ UNCHANGED <<fsVars, segVars, now, folder_states, merge_called, subtitle_check_count,
                   firstSeen, quietTicks, sawActiveSibling, probes, crashed, raised, decision, pool,
                   lockVars, procVars, histVars>>

\* finalize_live_check, line 294 (the with-block is left: the manifest is
\* complete and closed) to line 312, and the rest of the tick.
ManifestClose ==
    /\ manifest_out.f # 0
    /\ Tick(0)

\* A tick that writes no manifest.
TickNoManifest ==
    /\ manifest_out = NoManifest
    /\ ManifestsDue = {}
    /\ Tick(0)

\* The program is stopped without notice (kill, power loss) between two
\* passes of its merger thread, and started again: main_loop starts with
\* its locals as at lines 385-392; the files are as the file system has
\* them, a manifest that was open for writing with the lines that had
\* reached it.
Restart ==
    /\ \A p \in Procs : pc[p] = "idle"
    /\ filelist' = OnDisk
    /\ dirOrder' = OnDiskOrder
    /\ manifest_out' = NoManifest
    /\ folder_states' = <<>>
    /\ subtitle_check_count' = <<>>
    /\ merge_called' = FALSE
    /\ crashed' = FALSE
    /\ raised' = 0
    /\ decision' = <<>>
    /\ quietTicks' = [f \in Sessions |-> 0]
    /\ UNCHANGED <<dirDay, sub, outputs, tempMerged, segVars, now, firstSeen,
                   sawActiveSibling, probes, pool, lockVars, procVars, histVars>>

\* ------------------------------------------------------------ the thread pool

\* process_single_folder, lines 346-349, and check_live_folder_incremental,
\* lines 230-243: session f is due for its incremental check, there are
\* unchecked stable files, and the tick thread opens a ThreadPoolExecutor.
PoolOpen(f) ==
    /\ pool.phase = "idle"
    /\ decision = <<>> /\ ~crashed
    /\ f \in Range(all_folders)
    /\ ~has_been_merged(filelist, f) /\ has_files_to_check(f)
    /\ LET st == StateOf(folder_states, f)
           files == get_unchecked_stable_files(f, st.checked_files)
       IN /\ now - st.last_check >= LIVE_CHECK_INTERVAL
          /\ files # <<>>
          /\ pool' = [NoPool EXCEPT !.phase = "submit", !.f = f, !.todo = files, !.st = st]
    /\ UNCHANGED <<fsVars, segVars, now, folder_states, merge_called, subtitle_check_count,
                   firstSeen, quietTicks, sawActiveSibling, probes, crashed, raised, decision, manifest_out,
                   lockVars, procVars, histVars>>

\* Line 244, executor.submit: the tick thread queues the next file.
PoolSubmit ==
    /\ pool.phase = "submit"
    /\ pool' = [pool EXCEPT !.todo = Tail(@),
                            !.pending = Append(@, Head(pool.todo)),
                            !.futures = @ \cup {Head(pool.todo)},
                            !.phase = IF Tail(pool.todo) = <<>> THEN "collect" ELSE "submit"]
    /\ UNCHANGED <<fsVars, segVars, now, folder_states, merge_called, subtitle_check_count,
                   firstSeen, quietTicks, sawActiveSibling, probes, crashed, raised, decision, manifest_out,
                   lockVars, procVars, histVars>>

\* A variant of the pool without the limit on its worker threads.
WorkerStartUnbounded ==
    /\ pool.pending # <<>>
    /\ pool' = [pool EXCEPT !.pending = Tail(@), !.running = @ \cup {Head(pool.pending)}]
    /\ UNCHANGED <<fsVars, segVars, now, folder_states, merge_called, subtitle_check_count,
                   firstSeen, quietTicks, sawActiveSibling, probes, crashed, raised, decision, manifest_out,
                   lockVars, procVars, histVars>>

\* ThreadPoolExecutor(max_workers=MAX_WORKERS), line 243: a worker thread, of
\* which there are at most MAX_WORKERS, takes the oldest queued file and
\* calls check_ts_file on it.
WorkerStart ==
    /\ pool.pending # <<>>
    /\ Cardinality(pool.running) < MAX_WORKERS
    /\ pool' = [pool EXCEPT !.pending = Tail(@), !.running = @ \cup {Head(pool.pending)}]
    /\ UNCHANGED <<fsVars, segVars, now, folder_states, merge_called, subtitle_check_count,
                   firstSeen, quietTicks, sawActiveSibling, probes, crashed, raised, decision, manifest_out,
                   lockVars, procVars, histVars>>

\* check_ts_file returns in the worker (lines 166-214): the future is done.
WorkerFinish(i) ==
    /\ i \in pool.running
    /\ pool' = [pool EXCEPT !.running = @ \ {i}, !.finished = @ \cup {i}]
    /\ UNCHANGED <<fsVars, segVars, now, folder_states, merge_called, subtitle_check_count,
                   firstSeen, quietTicks, sawActiveSibling, probes, crashed, raised, decision, manifest_out,
                   lockVars, procVars, histVars>>

\* Lines 245-259: as_completed yields a finished future to the tick thread,
\* which records the file as checked and as valid or in error.
PoolCollect(i) ==
    /\ pool.phase = "collect"
    /\ i \in pool.finished
    /\ pool' = [pool EXCEPT !.finished = @ \ {i}, !.futures = @ \ {i},
                            !.st = CheckFiles(pool.st, pool.f, <<i>>, TRUE)]
    /\ probes' = [probes EXCEPT ![pool.f][i] = IF @ < MaxProbes THEN @ + 1 ELSE @]
    /\ UNCHANGED <<fsVars, segVars, now, folder_states, merge_called, subtitle_check_count,
                   firstSeen, quietTicks, sawActiveSibling, crashed, raised, decision, manifest_out,
                   lockVars, procVars, histVars>>

\* as_completed is exhausted and the with-block is left (shutdown waits for
\* the workers); process_single_folder sets last_check, line 356.
PoolClose ==
    /\ pool.phase = "collect"
    /\ pool.futures = {}
    /\ pool.pending = <<>> /\ pool.running = {}
    /\ folder_states' = [f \in DOMAIN folder_states \cup {pool.f} |->
                            IF f = pool.f THEN [pool.st EXCEPT !.last_check = now]
                            ELSE folder_states[f]]
    /\ pool' = NoPool
    /\ UNCHANGED <<fsVars, segVars, now, merge_called, subtitle_check_count,
                   firstSeen, quietTicks, sawActiveSibling, probes, crashed, raised, decision, manifest_out,
                   lockVars, procVars, histVars>>

\* ------------------------------------------------------------ environment

\* The tracker finalizes session f: finalize_live_check writes the manifest
\* into the session directory, which becomes the most recently modified one.
MoveLast(order, f) ==
    SelectSeq(order, LAMBDA g : g # f) \o <<f>>

EnvFinalize(f) ==
    /\ ~filelist[f].exists
    /\ filelist' = [filelist EXCEPT ![f] =
          [exists |-> TRUE, lines |-> [i \in 1..Len(segs[f]) |-> i]]]
    /\ dirOrder' = MoveLast(dirOrder, f)
    /\ \E d \in {0, 1} : dirDay' = [dirDay EXCEPT ![f] = d]
    /\ settled' = FALSE
    /\ passClean' = [p \in Procs |-> FALSE]
    /\ fresh' = [p \in Procs |-> FALSE]
    /\ UNCHANGED <<sub, outputs, tempMerged, lockVars, procVars, succCount, usedIn, reused, okPass, failed>>
    /\ UNCHANGED <<segVars, trackVars>>

\* The subtitle file of session f appears.
EnvSubtitle(f) ==
    /\ ~sub[f]
    /\ sub' = [sub EXCEPT ![f] = TRUE]
    /\ UNCHANGED <<dirOrder, dirDay, filelist, outputs, tempMerged, lockVars, procVars, histVars>>
    /\ UNCHANGED <<segVars, trackVars>>

\* An output file is moved away or deleted (upload stage, operator).
EnvRemoveOutput(n) ==
    /\ n \in outputs
    /\ outputs' = outputs \ {n}
    /\ succCount' = [succCount EXCEPT ![n] = 0]
    /\ settled' = FALSE
    /\ passClean' = [p \in Procs |-> FALSE]
    /\ fresh' = [p \in Procs |-> FALSE]
    /\ UNCHANGED <<dirOrder, dirDay, filelist, sub, tempMerged, lockVars, procVars, usedIn, reused, okPass, failed>>
    /\ UNCHANGED <<segVars, trackVars>>


\* The recorder writes the next segment of session f.
RecorderWrite(f) ==
    /\ writes < MaxWrites
    /\ Len(segs[f]) < MaxSegs
    /\ writes' = writes + 1
    /\ segs' = [segs EXCEPT ![f] = Append(@, now)]
    /\ dirOrder' = MoveLast(dirOrder, f)
    /\ dirDay' = dirDay
    /\ UNCHANGED <<filelist, sub, outputs, tempMerged, globOrder, others, upVars, bad, report,
                   is_live, trackVars, lockVars, procVars, histVars>>

\* The directory of session f appears under PARENT_DIR with its segments
\* already old: it was recorded while the tick was held up in merge_once
\* (line 506 returns when ffmpeg and the upload are done), or it was put
\* there by the operator.
SessionArrives(f) ==
    /\ f \notin Range(dirOrder)
    /\ dirOrder' = Append(dirOrder, f)
    /\ UNCHANGED <<dirDay, filelist, sub, outputs, tempMerged, segVars, trackVars,
                   lockVars, procVars, histVars>>

\* The live-status signal changes.
EnvLive ==
    /\ writes < MaxWrites
    /\ writes' = writes + 1
    /\ is_live' = ~is_live
    /\ UNCHANGED <<fsVars, segs, globOrder, others, upVars, bad, report, trackVars,
                   lockVars, procVars, histVars>>

\* ------------------------------------------------------------ specifications

\* No process is in upload_all_pending_videos, and nothing has been uploaded.
NoUpload ==
    /\ upPc = [p \in Procs |-> "idle"]
    /\ upFd = [p \in Procs |-> 0]
    /\ upLinked = 0
    /\ upOwner = [i \in Inodes |-> 0]
    /\ pending_files = [p \in Procs |-> <<>>]
    /\ uploaded = {}
    /\ quotaExhausted = [p \in Procs |-> FALSE]
    /\ uploadCount = [n \in Names |-> 0]

\* The tracker is not running: every session holds MIN_FILES_FOR_CHECK old
\* segments, all of them valid.
InitNoTracker ==
    /\ segs = [f \in Sessions |-> [i \in 1..MIN_FILES_FOR_CHECK |-> 0]]
    /\ globOrder = [i \in 1..MaxSegs |-> i]
    /\ others = 0
    /\ NoUpload
    /\ bad = {}
    /\ report = [f \in Sessions |-> NoReport]
    /\ is_live = FALSE
    /\ writes = 0
    /\ now = StartTime
    /\ folder_states = <<>>
    /\ merge_called = FALSE
    /\ subtitle_check_count = <<>>
    /\ firstSeen = [f \in Sessions |-> -1]
    /\ quietTicks = [f \in Sessions |-> 0]
    /\ sawActiveSibling = [f \in Sessions |-> FALSE]
    /\ probes = [f \in Sessions |-> [i \in 1..MaxSegs |-> 0]]
    /\ crashed = FALSE
    /\ raised = 0
    /\ decision = <<>>
    /\ pool = NoPool
    /\ manifest_out = NoManifest

InitMergers ==
    /\ InitNoTracker
    /\ dirOrder = [i \in 1..NumSessions |-> i]
    /\ dirDay = [f \in Sessions |-> 0]
    /\ sub \in [Sessions -> BOOLEAN]
    /\ outputs = {}
    /\ tempMerged = [n \in Names |-> <<>>]
    /\ linked = [n \in Names |-> 0]
    /\ flockOwner = [i \in Inodes |-> 0]
    /\ lockText = [i \in Inodes |-> 0]
    /\ fd = [p \in Procs |-> 0]
    /\ pc = [p \in Procs |-> "idle"]
    /\ items = [p \in Procs |-> <<>>]
    /\ count = [p \in Procs |-> 0]
    /\ retval = [p \in Procs |-> FALSE]
    /\ succCount = [n \in Names |-> 0]
    /\ usedIn = [f \in Sessions |-> {}]
    /\ reused = [f \in Sessions |-> FALSE]
    /\ settled = FALSE
    /\ passClean = [p \in Procs |-> FALSE]
    /\ fresh = [p \in Procs |-> FALSE]
    /\ okPass = [p \in Procs |-> FALSE]
    /\ failed = {}

InitMerge ==
    /\ InitMergers
    /\ filelist = [f \in Sessions |-> NoFile]

MergerStep(p) ==
    \/ MergeAllReady(p)
    \/ CreateMergedFilelist(p)
    \/ MergeItemCheck(p)
    \/ LockOpen(p)
    \/ LockFlock(p)
    \/ LockWrite(p)
    \/ MergeItemRecheck(p)
    \/ OracleStart(p)
    \/ OracleEnd(p)
    \/ LockUnlock(p)
    \/ LockUnlink(p)
    \/ MergeReturn(p)

\* Sequential passes of one merger process, while sessions are finalized,
\* subtitles appear and outputs are moved away.
NextMerge ==
    \/ MergerStep(1)
    \/ \E f \in Sessions : EnvFinalize(f)
    \/ \E f \in Sessions : EnvSubtitle(f)
    \/ \E n \in Names : EnvRemoveOutput(n)

SpecMerge == InitMerge /\ [][NextMerge]_vars

\* Concurrent merger processes over sessions that are already finalized.
InitLock ==
    /\ InitMergers
    /\ filelist = [f \in Sessions |->
          [exists |-> TRUE, lines |-> [i \in 1..MIN_FILES_FOR_CHECK |-> i]]]

NextLock ==
    \E p \in Procs : MergerStep(p)

SpecLock == InitLock /\ [][NextLock]_vars


\* The tracker runs beside the recorder; no merger process runs.
Ascending == [i \in 1..MaxSegs |-> i]
Descending == [i \in 1..MaxSegs |-> MaxSegs + 1 - i]
InitSegments == {[i \in 1..n |-> 0] : n \in {0, MIN_FILES_FOR_CHECK - 1, MIN_FILES_FOR_CHECK}}
\* No bad segment, one bad segment, or every segment the session starts with.
BadChoices == {{}, {<<1, 1>>}, {<<1, i>> : i \in 1..MIN_FILES_FOR_CHECK}}

InitTrack ==
    /\ dirOrder = [i \in 1..NumSessions |-> i]
    /\ dirDay = [f \in Sessions |-> 0]
    /\ segs \in [Sessions -> InitSegments]
    /\ globOrder \in {Ascending, Descending}
    /\ others = 0
    /\ NoUpload
    /\ bad \in BadChoices
    /\ filelist = [f \in Sessions |-> NoFile]
    /\ report = [f \in Sessions |-> NoReport]
    /\ sub = [f \in Sessions |-> FALSE]
    /\ is_live \in BOOLEAN
    /\ writes = 0
    /\ now = StartTime
    /\ folder_states = <<>>
    /\ merge_called = FALSE
    /\ subtitle_check_count = <<>>
    /\ firstSeen = [f \in Sessions |-> -1]
    /\ quietTicks = [f \in Sessions |-> 0]
    /\ sawActiveSibling = [f \in Sessions |-> FALSE]
    /\ probes = [f \in Sessions |-> [i \in 1..MaxSegs |-> 0]]
    /\ crashed = FALSE
    /\ raised = 0
    /\ decision = <<>>
    /\ pool = NoPool
    /\ manifest_out = NoManifest
    /\ outputs = {}
    /\ tempMerged = [n \in Names |-> <<>>]
    /\ linked = [n \in Names |-> 0]
    /\ flockOwner = [i \in Inodes |-> 0]
    /\ lockText = [i \in Inodes |-> 0]
    /\ fd = [p \in Procs |-> 0]
    /\ pc = [p \in Procs |-> "idle"]
    /\ items = [p \in Procs |-> <<>>]
    /\ count = [p \in Procs |-> 0]
    /\ retval = [p \in Procs |-> FALSE]
    /\ succCount = [n \in Names |-> 0]
    /\ usedIn = [f \in Sessions |-> {}]
    /\ reused = [f \in Sessions |-> FALSE]
    /\ settled = FALSE
    /\ passClean = [p \in Procs |-> FALSE]
    /\ fresh = [p \in Procs |-> FALSE]
    /\ okPass = [p \in Procs |-> FALSE]
    /\ failed = {}

NextTrack ==
    \/ MainLoopTick
    \/ \E f \in Sessions : RecorderWrite(f)
    \/ EnvLive
    \/ \E f \in Sessions : EnvSubtitle(f)

SpecTrack == InitTrack /\ [][NextTrack]_vars

\* The tracker beside the recorder, with ticks in which the processing of a
\* session raises an exception (an I/O error on the session directory).
\* Every session starts with enough valid segments to be worked on.
InitFault ==
    /\ InitTrack
    /\ bad = {}
    /\ globOrder = Ascending
    /\ \A f \in Sessions : Len(segs[f]) = MIN_FILES_FOR_CHECK

NextFault ==
    \/ MainLoopTick
    \/ MainLoopTickFault
    \/ \E f \in Sessions : RecorderWrite(f)
    \/ EnvLive
    \/ \E f \in Sessions : EnvSubtitle(f)

SpecFault == InitFault /\ [][NextFault]_vars

\* The tracker beside the recorder, where the recorder may write a segment
\* while a tick is between reading the signals and working on the folders.
InitLate ==
    /\ InitTrack
    /\ bad \in {{}, {<<1, 1>>}}
    /\ globOrder = Ascending
    /\ \A f \in Sessions : Len(segs[f]) = MIN_FILES_FOR_CHECK

NextLate ==
    \/ TickDecide
    \/ TickAct
    \/ \E f \in Sessions : RecorderWrite(f)
    \/ EnvLive
    \/ \E f \in Sessions : EnvSubtitle(f)

SpecLate == InitLate /\ [][NextLate]_vars

\* A merger process beside the tracker and the recorder.  The live signal
\* says not live; the second session may start one segment short.
InitBoth ==
    /\ InitTrack
    /\ bad = {}
    /\ globOrder = Ascending
    /\ ~is_live
    /\ Len(segs[1]) = MIN_FILES_FOR_CHECK
    /\ Len(segs[2]) \in {MIN_FILES_FOR_CHECK - 1, MIN_FILES_FOR_CHECK}

NextBoth ==
    \/ MainLoopTick
    \/ MergerStep(1)
    \/ \E f \in Sessions : RecorderWrite(f)
    \/ \E f \in Sessions : EnvSubtitle(f)

SpecBoth == InitBoth /\ [][NextBoth]_vars

\* The tracker in the middle of a tick of the wait branch, at line 514, with
\* a table and a list all_folders drawn from small sets.  The list holds
\* sessions without a manifest, but not always all of them: with more than
\* MAX_CONCURRENT_FOLDERS unfinished folders, line 405 drops the oldest.
\* The table holds records of sessions without a manifest, last checked at
\* various times before the tick.
TableRecords ==
    {[checked_files |-> {}, valid_files |-> <<>>, error_logs |-> <<>>,
      last_check |-> t, creation_time |-> 0] :
        t \in {0, StartTime - FOLDER_CLEANUP_DELAY - CHECK_INTERVAL,
               StartTime - FOLDER_CLEANUP_DELAY, StartTime - CHECK_INTERVAL}}

ListedFolders ==
    {<<>>} \cup {<<f>> : f \in Sessions} \cup {[i \in 1..NumSessions |-> i]}

InitCleanup ==
    /\ dirOrder = [i \in 1..NumSessions |-> i]
    /\ dirDay = [f \in Sessions |-> 0]
    /\ segs = [f \in Sessions |-> [i \in 1..MIN_FILES_FOR_CHECK |-> 0]]
    /\ globOrder = Ascending
    /\ others = 0
    /\ NoUpload
    /\ bad = {}
    /\ filelist \in [Sessions -> {NoFile, [exists |-> TRUE, lines |-> <<1>>]}]
    /\ report = [f \in Sessions |-> NoReport]
    /\ sub = [f \in Sessions |-> FALSE]
    /\ is_live = FALSE
    /\ writes = 0
    /\ now = StartTime
    /\ \E D \in SUBSET {f \in Sessions : ~filelist[f].exists} :
          folder_states \in [D -> TableRecords]
    /\ merge_called = FALSE
    /\ subtitle_check_count = <<>>
    /\ firstSeen = [f \in Sessions |-> IF f \in DOMAIN folder_states THEN 0 ELSE -1]
    /\ quietTicks = [f \in Sessions |-> 0]
    /\ sawActiveSibling = [f \in Sessions |-> FALSE]
    /\ probes = [f \in Sessions |-> [i \in 1..MaxSegs |-> 0]]
    /\ crashed = FALSE
    /\ raised = 0
    /\ \E af \in ListedFolders :
          /\ \A f \in Range(af) : ~filelist[f].exists
          /\ af = <<>> => \A f \in Sessions : filelist[f].exists
          /\ decision = <<af, IF af = <<>> THEN "none" ELSE "wait">>
    /\ pool = NoPool
    /\ manifest_out = NoManifest
    /\ outputs = {}
    /\ tempMerged = [n \in Names |-> <<>>]
    /\ linked = [n \in Names |-> 0]
    /\ flockOwner = [i \in Inodes |-> 0]
    /\ lockText = [i \in Inodes |-> 0]
    /\ fd = [p \in Procs |-> 0]
    /\ pc = [p \in Procs |-> "idle"]
    /\ items = [p \in Procs |-> <<>>]
    /\ count = [p \in Procs |-> 0]
    /\ retval = [p \in Procs |-> FALSE]
    /\ succCount = [n \in Names |-> 0]
    /\ usedIn = [f \in Sessions |-> {}]
    /\ reused = [f \in Sessions |-> FALSE]
    /\ settled = FALSE
    /\ passClean = [p \in Procs |-> FALSE]
    /\ fresh = [p \in Procs |-> FALSE]
    /\ okPass = [p \in Procs |-> FALSE]
    /\ failed = {}

NextCleanup ==
    \/ TickDecide
    \/ TickAct
    \/ \E f \in Sessions : RecorderWrite(f)
    \/ \E f \in Sessions : EnvSubtitle(f)

SpecCleanup == InitCleanup /\ [][NextCleanup]_vars

\* The incremental checks of the sessions, with the worker threads of the
\* pool as processes of their own.
InitPool ==
    /\ InitTrack
    /\ ~is_live
    /\ globOrder = Ascending
    /\ \A f \in Sessions : Len(segs[f]) = MIN_FILES_FOR_CHECK

NextPool ==
    \/ \E f \in Sessions : PoolOpen(f)
    \/ PoolSubmit
    \/ WorkerStart
    \/ \E i \in 1..MaxSegs : WorkerFinish(i)
    \/ \E i \in 1..MaxSegs : PoolCollect(i)
    \/ PoolClose

SpecPool == InitPool /\ [][NextPool]_vars

\* ------------------------------------------------------------ claims

\* Process p holds the FileLock of name n: from its successful flock until
\* its release.
HoldsLock(p, n) ==
    /\ pc[p] \in {"write", "recheck", "oracle", "running", "unlock"}
    /\ CurName(p) = n

RunningOracle(p, n) ==
    pc[p] = "running" /\ CurName(p) = n

\* Session f was part of a combined unit that was concatenated successfully.
Combined(f) ==
    \E n \in usedIn[f] : Len(n) = 2

\* C1: for one output name the concatenation oracle never runs in two
\* processes at once and succeeds at most once while the output is in place.
C1_OracleExclusive ==
    \A n \in Names :
        /\ Cardinality({p \in Procs : RunningOracle(p, n)}) <= 1
        /\ succCount[n] <= 1

\* C2: at most one process holds the FileLock of a lock name.
C2_LockExclusive ==
    \A n \in Names : Cardinality({p \in Procs : HoldsLock(p, n)}) <= 1

\* C3: a pass begun after a fully successful pass, with nothing finalized in
\* between, never invokes the concatenation oracle.
C3_SettledNoOracle ==
    \A p \in Procs : passClean[p] => pc[p] \notin {"oracle", "running"}

\* C4: a pass begun after a fully successful pass, with nothing finalized in
\* between, has a success count of 0.
C4_SettledCountZero ==
    \A p \in Procs : passClean[p] => count[p] = 0

\* C5: a scan never selects a session that was already part of a successfully
\* concatenated combined unit.
C5_CombinedExcluded ==
    [][\A p \in Procs :
          (pc[p] = "idle" /\ pc'[p] # "idle") =>
              \A i \in 1..Len(items'[p]) :
                  \A k \in 1..Len(items'[p][i].folders) :
                      ~Combined(items'[p][i].folders[k])]_vars

\* C6: a session merged as part of a combined unit never goes into another
\* successfully produced output file, alone or in another combination.
C6_MergedOnce ==
    \A f \in Sessions : ~reused[f]

\* A step writes the manifest of session f.
Finalizes(f) == ~filelist[f].exists /\ filelist'[f].exists

\* C7: a session with fewer than MIN_FILES_FOR_CHECK segment files is never
\* finalized: no step writes its manifest while its segment count is below
\* the minimum.
C7_MinFilesBeforeFinalize ==
    [][\A f \in Sessions : Finalizes(f) => Len(segs[f]) >= MIN_FILES_FOR_CHECK]_vars

\* C7 witness: one session has been finalized while another, one segment
\* short of the minimum, was passed over.
C7_Witness ==
    \E f, g \in Sessions :
        /\ filelist[f].exists
        /\ ~filelist[g].exists
        /\ Len(segs[g]) = MIN_FILES_FOR_CHECK - 1

\* C8: a session is never finalized before MIN_FOLDER_AGE_FOR_FINALIZE seconds
\* have passed since the tracker first observed it.
C8_MinAgeBeforeFinalize ==
    [][\A f \in Sessions :
          Finalizes(f) => /\ firstSeen[f] # -1
                          /\ now - firstSeen[f] >= MIN_FOLDER_AGE_FOR_FINALIZE]_vars

\* C9: a session is not finalized while a strictly newer session is active,
\* and once a tick has seen it beside an active newer session it is finalized
\* only after its own inactivity has lasted
\* LIVE_INACTIVE_THRESHOLD * (1 + EXTENDED_INACTIVE_MULTIPLIER) seconds.
C9_ExtendedWait ==
    [][\A f \in Sessions :
          Finalizes(f) =>
             /\ ~\E g \in Sessions : g > f /\ is_live_active(g)
             /\ sawActiveSibling[f] =>
                   now - LatestMtime(f) >
                      LIVE_INACTIVE_THRESHOLD * (1 + EXTENDED_INACTIVE_MULTIPLIER)]_vars

\* C10: no session is finalized in a tick in which one of its segments was
\* modified within the inactivity threshold: a manifest is written only when
\* is_really_stream_ended holds for all candidate sessions of the tick.
C10_QuietBeforeFinalize ==
    [][\A f \in Sessions :
          Finalizes(f) =>
             /\ now - LatestMtime(f) > LIVE_INACTIVE_THRESHOLD
             /\ \A g \in Range(all_folders) :
                   segs[g] = <<>> \/ now - LatestMtime(g) > FINAL_INACTIVE_THRESHOLD]_vars

\* C10 witness: a manifest lists a segment written while the tracker ran, so
\* the session was active and was finalized after it fell quiet.
C10_Witness ==
    \E f \in Sessions :
        /\ filelist[f].exists
        /\ segs[f] # <<>>
        /\ segs[f][Len(segs[f])] >= StartTime
        /\ Len(segs[f]) \in Range(filelist[f].lines)

\* C11: finalized is terminal: once the manifest of a session exists, no step
\* validates a segment of the session, changes the manifest or changes the
\* error report, whatever is written to the session directory afterwards.
C11_FinalizedTerminal ==
    [][\A f \in Sessions :
          filelist[f].exists =>
             /\ filelist'[f] = filelist[f]
             /\ report'[f] = report[f]
             /\ probes'[f] = probes[f]]_vars

\* C11 witness: a finalized session holds a segment that was never validated
\* (it was written after the manifest) and a tick has run since it was written.
C11_Witness ==
    \E f \in Sessions :
        /\ filelist[f].exists
        /\ \E i \in SegIds(f) : probes[f][i] = 0 /\ now - segs[f][i] >= 2 * CHECK_INTERVAL

\* C12: each segment is classified at most once in a session's lifetime: no
\* segment is submitted to the validator a second time, and no tracking
\* record holds a second valid or error entry for a segment.
C12_ClassifiedOnce ==
    \A f \in Sessions : \A i \in 1..MaxSegs :
        /\ probes[f][i] <= 1
        /\ f \in DOMAIN folder_states => Entries(folder_states[f], i) <= 1

\* The segments of session f that fail validation.
BadSegs(f) == {i \in SegIds(f) : <<f, i>> \in bad}

\* C13: a step that finalizes a session with N segment files of which K fail
\* validation writes a manifest of N - K lines and, when K > 0, an error
\* report that lists K reasons and states an invalid count of K.
C13_ManifestAndReportCounts ==
    [][\A f \in Sessions :
          Finalizes(f) =>
             /\ Len(filelist'[f].lines) = Len(segs[f]) - Cardinality(BadSegs(f))
             /\ BadSegs(f) # {} =>
                   /\ report'[f].exists
                   /\ Len(report'[f].reasons) = Cardinality(BadSegs(f))
                   /\ report'[f].invalid = Cardinality(BadSegs(f))]_vars

\* C14: the manifest a step writes lists the valid segments of the session,
\* each once, in ascending segment-name order, whatever the order in which
\* validations completed and however they were split between incremental
\* checks and the final check.
C14_ManifestSorted ==
    [][\A f \in Sessions :
          Finalizes(f) =>
             LET lines == filelist'[f].lines
             IN /\ \A k \in 1..(Len(lines) - 1) : lines[k] < lines[k + 1]
                /\ Range(lines) = SegIds(f) \ BadSegs(f)]_vars

\* C14 witness: the directory listing yields the newest segment first, and a
\* manifest of several lines includes a segment written while the tracker
\* ran, several ticks after the first ones.
C14_Witness ==
    \E f \in Sessions :
        /\ globOrder = Descending
        /\ filelist[f].exists
        /\ Len(filelist[f].lines) > MIN_FILES_FOR_CHECK
        /\ \E k \in 1..Len(filelist[f].lines) : segs[f][filelist[f].lines[k]] > StartTime

\* C15: a finalization attempt writes the manifest if and only if the session
\* has at least one valid segment; with no valid segment no manifest is
\* written and the session stays unfinalized, tracked and open to the
\* attempt of a later tick.
C15_FinalizeIffValid ==
    [][\A f \in Sessions :
          /\ Finalizes(f) => SegIds(f) \ BadSegs(f) # {}
          /\ (now' # now /\ CurrentBranch = "finalize" /\ f \in ToFinalize(all_folders)) =>
                IF SegIds(f) \ BadSegs(f) # {}
                THEN filelist'[f].exists /\ filelist'[f].lines # <<>>
                ELSE /\ ~filelist'[f].exists
                     /\ f \in DOMAIN folder_states'
                     /\ f \in ToFinalize(all_folders)']_vars

\* C15 witness: a session without a valid segment is still unfinalized after
\* more than one finalization attempt.
C15_Witness ==
    \E f \in Sessions :
        /\ ~filelist[f].exists
        /\ SegIds(f) # {} /\ SegIds(f) \ BadSegs(f) = {}
        /\ \A i \in SegIds(f) : probes[f][i] >= 2

\* C16: an exception raised while one session is processed in a tick is caught
\* at the per-session boundary: main_loop goes on, and the other sessions of
\* the tick are processed as they are in a tick without the exception.
C16_FaultIsolated ==
    [][(now' # now /\ raised' # 0) =>
          /\ ~crashed'
          /\ \A f \in Range(all_folders) \ {raised'} :
                /\ CurrentBranch = "process" =>
                      folder_states'[f] = process_single_folder(f, StateOf(folder_states, f))
                /\ (CurrentBranch = "finalize" /\ f \in ToFinalize(all_folders)
                    /\ SegIds(f) \ BadSegs(f) # {}) => filelist'[f].exists]_vars

\* C17: merge_item checks the output again once it holds the lock: if the
\* output exists by then it does not start the oracle, releases the lock and
\* returns success, which the pass counts.
C17_RecheckUnderLock ==
    [][\A p \in Procs :
          /\ (pc[p] = "recheck" /\ pc'[p] # "recheck") =>
                IF CurName(p) \in outputs
                THEN pc'[p] = "unlock" /\ retval'[p] = TRUE
                ELSE pc'[p] = "oracle"
          /\ (pc[p] = "unlock" /\ pc'[p] # "unlock") =>
                pc'[p] = "unlink" /\ fd'[p] = 0 /\ retval'[p] = retval[p]
          /\ (pc[p] = "unlink" /\ pc'[p] # "unlink") =>
                count'[p] = count[p] + (IF retval[p] THEN 1 ELSE 0)]_vars

\* C17 witness: a process that found no output before it asked for the lock
\* holds the lock and finds the output, which another process has produced.
C17_Witness ==
    \E p \in Procs : pc[p] = "recheck" /\ CurName(p) \in outputs

\* C18: lock acquisition never blocks: when another process holds the lock of
\* the name, the attempt of merge_item fails at once, merge_item returns
\* False without starting the oracle, and the pass moves to its next unit.
C18_ContendedSkipped ==
    [][\A p \in Procs :
          (/\ pc[p] = "flock" /\ pc'[p] # "flock"
           /\ \E q \in Procs \ {p} : HoldsLock(q, CurName(p))) =>
              /\ pc'[p] \in {"item", "done"}
              /\ items'[p] = Tail(items[p])
              /\ count'[p] = count[p]]_vars


C20_UnitsHaveManifests ==
    [][\A p \in Procs :
          /\ (pc[p] = "idle" /\ pc'[p] # "idle") =>
                \A k \in 1..Len(items'[p]) :
                    \A f \in Range(items'[p][k].folders) :
                        filelist[f].exists /\ <<f>> \notin outputs
          /\ (pc[p] # "running" /\ pc'[p] = "running") =>
                \A f \in Range(CurName(p)) : filelist[f].exists]_vars

\* The oracle runs for a unit while another session still has no manifest.
C20_Witness ==
    \E p \in Procs : \E f \in Sessions :
        /\ pc[p] = "running"
        /\ ~filelist[f].exists
        /\ f \notin Range(CurName(p))


\* C21: while a session has fewer than MIN_FILES_FOR_CHECK segment files,
\* none of its segments has been submitted to the validator, and its
\* tracking record, if it has one, holds empty checked, valid and error
\* records after every tick.
C21_CollectingUntouched ==
    \A f \in Sessions :
        Len(segs[f]) < MIN_FILES_FOR_CHECK =>
            /\ \A i \in 1..MaxSegs : probes[f][i] = 0
            /\ f \in DOMAIN folder_states =>
                  /\ folder_states[f].checked_files = {}
                  /\ folder_states[f].valid_files = <<>>
                  /\ folder_states[f].error_logs = <<>>

\* A session one segment below the minimum is tracked after several ticks,
\* one of which finalized another session.
C21_Witness ==
    \E f \in Sessions :
        /\ Len(segs[f]) = MIN_FILES_FOR_CHECK - 1
        /\ f \in DOMAIN folder_states
        /\ now >= StartTime + 2 * CHECK_INTERVAL
        /\ \E g \in Sessions : filelist[g].exists


\* C22: in a tick that processes, the incremental check of a session (it
\* runs when the session has enough files and LIVE_CHECK_INTERVAL has passed
\* since its last check) validates once each segment that is not in the
\* checked set and was modified more than FILE_STABLE_TIME seconds ago, adds
\* exactly these to the checked set, and validates no other segment.
C22_IncrementalSelection ==
    [][(now' # now /\ CurrentBranch = "process") =>
          \A f \in Range(all_folders) :
              LET st == StateOf(folder_states, f)
                  runs == /\ has_files_to_check(f)
                          /\ now - st.last_check >= LIVE_CHECK_INTERVAL
                  sel == IF runs
                         THEN {i \in SegIds(f) : /\ i \notin st.checked_files
                                                 /\ now - segs[f][i] > FILE_STABLE_TIME}
                         ELSE {}
              IN /\ f \in DOMAIN folder_states'
                 /\ folder_states'[f].checked_files = st.checked_files \cup sel
                 /\ \A i \in 1..MaxSegs :
                       Entries(folder_states'[f], i) - Entries(st, i)
                          = IF i \in sel THEN 1 ELSE 0]_vars

\* An incremental check has just validated the older segments of a session
\* and left out the segment that was written at the time of the check.
C22_Witness ==
    \E f \in DOMAIN folder_states : \E i \in SegIds(f) :
        /\ folder_states[f].last_check + CHECK_INTERVAL = now
        /\ folder_states[f].checked_files # {}
        /\ segs[f][i] = folder_states[f].last_check
        /\ i \notin folder_states[f].checked_files
        /\ Entries(folder_states[f], i) = 0


\* C23: a tick that finalizes a session validates in that tick every segment
\* of the session directory that is not in the checked set, stable or not,
\* and no segment of the checked set; afterwards every segment of the
\* directory has been classified, and the manifest lists, once each, exactly
\* the segments that are valid.
C23_FinalizeCoversAll ==
    [][\A f \in Sessions :
          Finalizes(f) =>
              LET st == StateOf(folder_states, f)
                  valid == {i \in SegIds(f) : check_ts_file(f, i)}
              IN /\ \A i \in SegIds(f) :
                       /\ probes'[f][i] >= 1
                       /\ probes'[f][i] =
                             IF i \in st.checked_files THEN probes[f][i]
                             ELSE IF probes[f][i] < MaxProbes THEN probes[f][i] + 1
                             ELSE MaxProbes
                 /\ Range(filelist'[f].lines) = valid
                 /\ Len(filelist'[f].lines) = Cardinality(valid)]_vars

\* The manifest of a session lists a segment that was written while the
\* finalizing tick was between reading the file activity and listing the
\* session directory, so that it was validated before it was stable.
C23_Witness ==
    \E f \in Sessions : \E i \in SegIds(f) :
        /\ filelist[f].exists
        /\ i \in Range(filelist[f].lines)
        /\ segs[f][i] + CHECK_INTERVAL = now
        /\ probes[f][i] = 1


\* C24: a tick runs the incremental check of a session exactly when the tick
\* processes, the session is among its folders with enough segments, and at
\* least LIVE_CHECK_INTERVAL seconds have passed since the session's
\* last_check, which is the case for a record created in this tick.  Then
\* last_check becomes the time of the tick; otherwise last_check stays and
\* no segment of the session is validated by a processing tick.
C24_CheckInterval ==
    [][now' # now =>
          \A f \in Sessions :
              LET st == StateOf(folder_states, f)
                  due == /\ CurrentBranch = "process"
                         /\ f \in Range(all_folders)
                         /\ has_files_to_check(f)
                         /\ now - st.last_check >= LIVE_CHECK_INTERVAL
              IN /\ (/\ CurrentBranch = "process" /\ f \in Range(all_folders)
                     /\ has_files_to_check(f) /\ f \notin DOMAIN folder_states) => due
                 /\ f \in DOMAIN folder_states' =>
                       folder_states'[f].last_check = IF due THEN now ELSE st.last_check
                 /\ (CurrentBranch = "process" /\ ~due) =>
                       \A i \in 1..MaxSegs : probes'[f][i] = probes[f][i]]_vars

\* A processing tick has passed over a stable segment that is not in the
\* checked set, because the session was checked one tick earlier.
C24_Witness ==
    \E f \in DOMAIN folder_states : \E i \in SegIds(f) :
        /\ folder_states[f].last_check + 2 * CHECK_INTERVAL = now
        /\ segs[f][i] = folder_states[f].last_check
        /\ i \notin folder_states[f].checked_files
        /\ probes[f][i] = 0
        /\ raised = 0


\* C25: a tick that reads the live signal as live finalizes no session, and
\* neither does a tick that reads it as not live while one of its folders
\* has a segment modified within the last FINAL_INACTIVE_THRESHOLD seconds.
C25_SignalNotSoleTrigger ==
    [][(/\ now' # now
        /\ \/ is_live
           \/ \E g \in Range(all_folders) : \E i \in SegIds(g) :
                 now - segs[g][i] <= FINAL_INACTIVE_THRESHOLD) =>
          \A f \in Sessions : ~Finalizes(f)]_vars

\* The live signal has said not live all along, and the latest tick found a
\* recently written segment in a session that has enough segments and a
\* subtitle by now, and left it without a manifest.
C25_Witness ==
    \E f \in Sessions : \E i \in SegIds(f) :
        /\ ~is_live /\ writes = 1
        /\ segs[f][i] > 0
        /\ now > segs[f][i]
        /\ now - CHECK_INTERVAL - segs[f][i] <= FINAL_INACTIVE_THRESHOLD
        /\ has_files_to_check(f)
        /\ sub[f]
        /\ ~filelist[f].exists


\* C26: no step of a merger process changes the tracker's table
\* folder_states, a session's manifest or a session's segment files.
C26_MergeLeavesTrackerData ==
    [][\A p \in Procs :
          (pc'[p] # pc[p] \/ items'[p] # items[p]) =>
              /\ folder_states' = folder_states
              /\ filelist' = filelist
              /\ segs' = segs]_vars

\* The oracle runs for a merger process while the tracker holds the record
\* of a session it has checked incrementally.
C26_Witness ==
    \E p \in Procs :
        /\ pc[p] = "running"
        /\ \E f \in DOMAIN folder_states : folder_states[f].checked_files # {}


\* C27: a record enters the table only in a tick that has the session among
\* its folders, and it starts empty; and when a tick is completed the table
\* holds no session whose manifest exists and no session that is outside the
\* tick's folders with a last_check more than FOLDER_CLEANUP_DELAY seconds
\* before the tick.
C27_TableLifecycle ==
    [][/\ \A f \in DOMAIN folder_states' \ DOMAIN folder_states :
             /\ decision # <<>> /\ decision' = <<>>
             /\ f \in Range(decision[1])
             /\ folder_states'[f].creation_time = now
             /\ \A i \in 1..MaxSegs :
                   Entries(folder_states'[f], i) = probes'[f][i] - probes[f][i]
       /\ (decision # <<>> /\ decision' = <<>>) =>
             \A f \in DOMAIN folder_states' :
                 /\ ~filelist'[f].exists
                 /\ \/ f \in Range(decision[1])
                    \/ now - folder_states'[f].last_check <= FOLDER_CLEANUP_DELAY]_vars

\* The first tick is completed: a session that had a record and was not
\* among the tick's folders has lost it without being finalized, and the
\* session that was among them has kept the record it had.
C27_Witness ==
    /\ now = StartTime + CHECK_INTERVAL
    /\ \E f \in Sessions :
          /\ firstSeen[f] = 0
          /\ ~filelist[f].exists
          /\ f \notin DOMAIN folder_states
    /\ \E g \in DOMAIN folder_states :
          /\ firstSeen[g] = 0
          /\ folder_states[g].last_check < StartTime - FOLDER_CLEANUP_DELAY


\* C28: at most MAX_WORKERS validations are in flight at any time; a worker
\* thread changes neither the record being built nor the tracking table;
\* and when the check returns, no validation is queued, in flight or
\* uncollected, and the session's record holds, in some order, what
\* results from recording every submitted file.
C28_PoolBounded ==
    [][/\ Cardinality(pool'.running) <= MAX_WORKERS
       /\ pool'.running # pool.running =>
             /\ pool'.st = pool.st
             /\ folder_states' = folder_states
             /\ probes' = probes
       /\ (pool.phase # "idle" /\ pool'.phase = "idle") =>
             /\ pool.todo = <<>> /\ pool.pending = <<>>
             /\ pool.running = {} /\ pool.finished = {}
             /\ LET whole == check_live_folder_incremental(
                                 pool.f, StateOf(folder_states, pool.f))
                    new == folder_states'[pool.f]
                IN /\ new.checked_files = whole.checked_files
                   /\ \A i \in 1..MaxSegs :
                         /\ Cardinality({k \in 1..Len(new.valid_files) :
                                            new.valid_files[k] = i})
                              = Cardinality({k \in 1..Len(whole.valid_files) :
                                               whole.valid_files[k] = i})
                         /\ Entries(new, i) = Entries(whole, i)
                   /\ new.last_check = now]_vars

\* One validation is in flight while a finished one waits for the tick
\* thread and others are still queued.
C28_Witness ==
    /\ pool.running # {}
    /\ pool.finished # {}
    /\ pool.pending # <<>>


\* The sessions of the units of a pass, in the order of the units.
RECURSIVE UnitSessions(_)
UnitSessions(units) ==
    IF units = <<>> THEN <<>>
    ELSE Head(units).folders \o UnitSessions(Tail(units))

\* C29: the units of a scan partition its candidates, taken in the order of
\* their modification times: every candidate is in exactly one unit, no unit
\* has more than two sessions, and two adjacent candidates form a combined
\* unit exactly when the subtitle of the first exists and that of the second
\* does not.
C29_PairingPartition ==
    [][\A p \in Procs :
          (pc[p] = "idle" /\ pc'[p] # "idle") =>
              LET c == candidate_folders(dirOrder, filelist, outputs)
                  units == items'[p]
              IN /\ UnitSessions(units) = c
                 /\ \A k \in 1..Len(units) :
                       /\ Len(units[k].folders) \in {1, 2}
                       /\ units[k].type = "merged" <=> Len(units[k].folders) = 2
                 /\ \A k \in 1..(Len(c) - 1) :
                       (\E j \in 1..Len(units) : units[j].folders = <<c[k], c[k + 1]>>)
                          <=> (ENABLE_SUBTITLE_BASED_MERGE /\ sub[c[k]] /\ ~sub[c[k + 1]])]_vars


\* merge_item, lines 175-181: the list named after -i, as ffmpeg finds it
\* when it starts.
OracleInput(p) ==
    IF CurItem(p).type = "merged" THEN tempMerged[CurName(p)]
    ELSE TaggedLines(OnDisk, CurItem(p).folders[1])

\* C30: the list handed to the concatenation oracle for a combined unit is
\* the manifest lines of the first session followed by those of the second,
\* verbatim and in manifest order; for a unit of one session it is that
\* session's manifest, unchanged.
C30_ListHandedToOracle ==
    [][\A p \in Procs :
          (pc[p] = "oracle" /\ pc'[p] = "running") =>
              OracleInput(p) =
                 IF CurItem(p).type = "merged"
                 THEN TaggedLines(filelist, CurName(p)[1]) \o TaggedLines(filelist, CurName(p)[2])
                 ELSE TaggedLines(filelist, CurName(p)[1])]_vars


\* C31: while a process holds the lock of a name, the lock file of that name
\* exists, is the file the holder locked, and carries the holder's process
\* id, whatever other processes have tried on the same lock in the meantime.
C31_LockFileRecordsHolder ==
    \A p \in Procs :
        pc[p] \in {"recheck", "oracle", "running"} =>
            /\ linked[CurName(p)] = fd[p]
            /\ lockText[fd[p]] = p


\* The tracker with the manifest write of finalize_live_check in its steps,
\* beside the merger thread of the same program (main.py 225-232), which
\* may be stopped and started again.  The second session was finalized in
\* an earlier run; the first is ready to be finalized, one of its segments
\* is not valid.
InitWrite ==
    /\ dirOrder = <<2, 1>>
    /\ dirDay = [f \in Sessions |-> 0]
    /\ segs = [f \in Sessions |-> [i \in 1..MIN_FILES_FOR_CHECK |-> 0]]
    /\ globOrder = Ascending
    /\ others = 0
    /\ NoUpload
    /\ bad = {<<1, 1>>}
    /\ filelist = [f \in Sessions |->
          IF f = 2 THEN [exists |-> TRUE, lines |-> [i \in 1..MIN_FILES_FOR_CHECK |-> i]]
          ELSE NoFile]
    /\ report = [f \in Sessions |-> NoReport]
    /\ sub = [f \in Sessions |-> FALSE]
    /\ is_live = FALSE
    /\ writes = 0
    /\ now = StartTime
    /\ folder_states = <<>>
    /\ merge_called = FALSE
    /\ subtitle_check_count = <<>>
    /\ firstSeen = [f \in Sessions |-> -1]
    /\ quietTicks = [f \in Sessions |-> 0]
    /\ sawActiveSibling = [f \in Sessions |-> FALSE]
    /\ probes = [f \in Sessions |-> [i \in 1..MaxSegs |-> 0]]
    /\ crashed = FALSE
    /\ raised = 0
    /\ decision = <<>>
    /\ pool = NoPool
    /\ manifest_out = NoManifest
    /\ outputs = {}
    /\ tempMerged = [n \in Names |-> <<>>]
    /\ linked = [n \in Names |-> 0]
    /\ flockOwner = [i \in Inodes |-> 0]
    /\ lockText = [i \in Inodes |-> 0]
    /\ fd = [p \in Procs |-> 0]
    /\ pc = [p \in Procs |-> "idle"]
    /\ items = [p \in Procs |-> <<>>]
    /\ count = [p \in Procs |-> 0]
    /\ retval = [p \in Procs |-> FALSE]
    /\ succCount = [n \in Names |-> 0]
    /\ usedIn = [f \in Sessions |-> {}]
    /\ reused = [f \in Sessions |-> FALSE]
    /\ settled = FALSE
    /\ passClean = [p \in Procs |-> FALSE]
    /\ fresh = [p \in Procs |-> FALSE]
    /\ okPass = [p \in Procs |-> FALSE]
    /\ failed = {}

NextWrite ==
    \/ TickNoManifest
    \/ \E f \in Sessions : ManifestOpen(f)
    \/ ManifestFlush
    \/ ManifestClose
    \/ Restart
    \/ MergerStep(1)
    \/ \E f \in Sessions : EnvSubtitle(f)

SpecWrite == InitWrite /\ [][NextWrite]_vars

\* The manifest of session f when it holds every valid segment.
CompleteManifest(f) ==
    SortSeq(GlobOrder({i \in SegIds(f) : check_ts_file(f, i)}), LAMBDA a, b : a < b)

\* C32: a manifest that exists is complete.  When the concatenation oracle
\* is started beside the running tracker, the manifest of each session of
\* its unit holds all the valid segments of the session; when no manifest
\* is being written, also after the program was stopped in the middle of a
\* finalization, every manifest that exists holds all the valid segments of
\* its session, and a session without a manifest is among the folders the
\* next tick works on.
C32_ManifestComplete ==
    /\ [](manifest_out = NoManifest =>
            \A f \in Sessions :
                IF filelist[f].exists THEN filelist[f].lines = CompleteManifest(f)
                ELSE f \in Range(all_folders))
    /\ [][\A p \in Procs :
            (pc[p] = "oracle" /\ pc'[p] = "running" /\ CurItem(p).type = "single") =>
                OnDisk[CurName(p)[1]].lines = CompleteManifest(CurName(p)[1])]_vars


\* A step in which finalize_live_check is called for session f and shows:
\* it writes the manifest, or it validates segments without marking them as
\* checked (lines 275-285).
FinalizeCalled(f) ==
    \/ Finalizes(f)
    \/ /\ f \in DOMAIN folder_states'
       /\ \E i \in SegIds(f) :
             /\ i \notin folder_states'[f].checked_files
             /\ Entries(folder_states'[f], i) > Entries(StateOf(folder_states, f), i)

\* C33: finalize_live_check is called in a tick only if the tick read the
\* live signal as off, none of its folders has a segment modified within
\* FINAL_INACTIVE_THRESHOLD, and for the earliest of its folders either the
\* subtitle is there after the check of line 437 (the file itself, or the
\* link that check makes to a subtitle of the same day) or the subtitle has
\* been checked SUBTITLE_CHECK_LIMIT times, this tick's check included.
C33_SubtitleGate ==
    [][\A f \in Sessions :
          FinalizeCalled(f) =>
             /\ ~is_live
             /\ \A g \in Range(all_folders) :
                   segs[g] = <<>> \/ now - LatestMtime(g) > FINAL_INACTIVE_THRESHOLD
             /\ \/ sub'[all_folders[1]]
                \/ /\ all_folders[1] \in DOMAIN subtitle_check_count'
                   /\ subtitle_check_count'[all_folders[1]] >= SUBTITLE_CHECK_LIMIT]_vars

\* A session was finalized although no subtitle has appeared: the limit on
\* the subtitle checks let it through.
C33_Witness ==
    /\ \E f \in Sessions : filelist[f].exists
    /\ \A g \in Sessions : ~sub[g]


\* C34: a missing subtitle does not hold finalization back for good.  When
\* a tick reads the live signal as off and the files as quiet, and is the
\* last of SUBTITLE_CHECK_LIMIT such ticks in a row that have session f
\* among their folders, then f, if it has MIN_FILES_FOR_CHECK segments, one
\* of them valid, has its manifest after this tick, subtitle or not.
C34_FinalizedWithinLimit ==
    [][\A f \in Sessions :
          (/\ now' # now
           /\ f \in Range(all_folders)
           /\ ~is_live /\ ~FilesActive(all_folders)
           /\ quietTicks[f] >= SUBTITLE_CHECK_LIMIT - 1
           /\ has_files_to_check(f)
           /\ \E i \in SegIds(f) : check_ts_file(f, i)) =>
              filelist'[f].exists]_vars

\* A session was finalized by the last of SUBTITLE_CHECK_LIMIT quiet ticks,
\* and no subtitle has appeared.
C34_Witness ==
    \E f \in Sessions :
        /\ filelist[f].exists
        /\ quietTicks[f] = SUBTITLE_CHECK_LIMIT
        /\ \A g \in Sessions : ~sub[g]


\* The tracker alone, the live signal off and the recorder silent.  The
\* first session is the oldest directory and has its MIN_FILES_FOR_CHECK
\* segments; the second has too few segments to be finalized; up to
\* MAX_CONCURRENT_FOLDERS further directories, newer than both, hold no
\* segments.  main_loop runs for ever (while True, line 394).
InitStarve ==
    /\ dirOrder = <<1, 2>>
    /\ dirDay = [f \in Sessions |-> 0]
    /\ \E n \in {0, MIN_FILES_FOR_CHECK - 1} :
          segs = [f \in Sessions |-> [i \in 1..(IF f = 1 THEN MIN_FILES_FOR_CHECK ELSE n) |-> 0]]
    /\ globOrder = Ascending
    /\ others \in 0..MAX_CONCURRENT_FOLDERS
    /\ NoUpload
    /\ bad \in {{}, {<<1, 1>>}}
    /\ filelist = [f \in Sessions |-> NoFile]
    /\ report = [f \in Sessions |-> NoReport]
    /\ sub = [f \in Sessions |-> FALSE]
    /\ is_live = FALSE
    /\ writes = 0
    /\ now = StartTime
    /\ folder_states = <<>>
    /\ merge_called = FALSE
    /\ subtitle_check_count = <<>>
    /\ firstSeen = [f \in Sessions |-> -1]
    /\ quietTicks = [f \in Sessions |-> 0]
    /\ sawActiveSibling = [f \in Sessions |-> FALSE]
    /\ probes = [f \in Sessions |-> [i \in 1..MaxSegs |-> 0]]
    /\ crashed = FALSE
    /\ raised = 0
    /\ decision = <<>>
    /\ pool = NoPool
    /\ manifest_out = NoManifest
    /\ outputs = {}
    /\ tempMerged = [n \in Names |-> <<>>]
    /\ linked = [n \in Names |-> 0]
    /\ flockOwner = [i \in Inodes |-> 0]
    /\ lockText = [i \in Inodes |-> 0]
    /\ fd = [p \in Procs |-> 0]
    /\ pc = [p \in Procs |-> "idle"]
    /\ items = [p \in Procs |-> <<>>]
    /\ count = [p \in Procs |-> 0]
    /\ retval = [p \in Procs |-> FALSE]
    /\ succCount = [n \in Names |-> 0]
    /\ usedIn = [f \in Sessions |-> {}]
    /\ reused = [f \in Sessions |-> FALSE]
    /\ settled = FALSE
    /\ passClean = [p \in Procs |-> FALSE]
    /\ fresh = [p \in Procs |-> FALSE]
    /\ okPass = [p \in Procs |-> FALSE]
    /\ failed = {}

NextStarve ==
    \/ MainLoopTick
    \/ \E f \in Sessions : EnvSubtitle(f)

SpecStarve == InitStarve /\ [][NextStarve]_vars /\ WF_vars(MainLoopTick)

InitAppear ==
    /\ dirOrder = <<1>>
    /\ dirDay = [f \in Sessions |-> 0]
    /\ segs = [f \in Sessions |-> [i \in 1..MIN_FILES_FOR_CHECK |-> 0]]
    /\ globOrder = Ascending
    /\ others = 0
    /\ NoUpload
    /\ bad \in {{}, {<<1, 1>>}}
    /\ filelist = [f \in Sessions |-> NoFile]
    /\ report = [f \in Sessions |-> NoReport]
    /\ sub = [f \in Sessions |-> FALSE]
    /\ is_live = FALSE
    /\ writes = 0
    /\ now = StartTime
    /\ folder_states = <<>>
    /\ merge_called = FALSE
    /\ subtitle_check_count = <<>>
    /\ firstSeen = [f \in Sessions |-> -1]
    /\ quietTicks = [f \in Sessions |-> 0]
    /\ sawActiveSibling = [f \in Sessions |-> FALSE]
    /\ probes = [f \in Sessions |-> [i \in 1..MaxSegs |-> 0]]
    /\ crashed = FALSE
    /\ raised = 0
    /\ decision = <<>>
    /\ pool = NoPool
    /\ manifest_out = NoManifest
    /\ outputs = {}
    /\ tempMerged = [n \in Names |-> <<>>]
    /\ linked = [n \in Names |-> 0]
    /\ flockOwner = [i \in Inodes |-> 0]
    /\ lockText = [i \in Inodes |-> 0]
    /\ fd = [p \in Procs |-> 0]
    /\ pc = [p \in Procs |-> "idle"]
    /\ items = [p \in Procs |-> <<>>]
    /\ count = [p \in Procs |-> 0]
    /\ retval = [p \in Procs |-> FALSE]
    /\ succCount = [n \in Names |-> 0]
    /\ usedIn = [f \in Sessions |-> {}]
    /\ reused = [f \in Sessions |-> FALSE]
    /\ settled = FALSE
    /\ passClean = [p \in Procs |-> FALSE]
    /\ fresh = [p \in Procs |-> FALSE]
    /\ okPass = [p \in Procs |-> FALSE]
    /\ failed = {}

NextAppear ==
    \/ MainLoopTick
    \/ \E f \in Sessions : SessionArrives(f)
    \/ \E f \in Sessions : EnvSubtitle(f)

SpecAppear == InitAppear /\ [][NextAppear]_vars

\* The units find_ready_folders returns after this step (no lock is held
\* when no merger process runs) have all been through merge_item in it:
\* each has its output, or its oracle run has failed.
MergePassShows ==
    \E ready \in {find_ready_folders(dirOrder', filelist', outputs, sub')} :
        \A k \in 1..Len(ready) :
            ready[k].folders \in outputs' \/ ready[k].folders \in failed'

\* C36: a tick that takes the finalize branch and leaves every session of
\* its list with a manifest runs a merge pass (merge_once) before it ends,
\* also when an earlier tick has run one already; and merge_once is called
\* (merge_called is set, lines 506-507) only by a tick that leaves every
\* session of its list with a manifest.
C36_MergeAfterFinalize ==
    [][/\ (/\ now' # now
           /\ CurrentBranch = "finalize"
           /\ \A f \in Range(all_folders) : filelist'[f].exists) => MergePassShows
       /\ (~merge_called /\ merge_called') =>
              \A f \in Range(all_folders) : filelist'[f].exists]_vars


\* C37: a process whose flock fails leaves the ownership of the lock as it
\* was: the lock path names the same file, the process that holds the
\* flock on that file holds it still, and no other process has moved.
C37_FailedAcquireKeepsOwner ==
    [][\A p \in Procs :
          (pc[p] = "flock" /\ pc'[p] # "flock" /\ flockOwner[fd[p]] # 0) =>
             /\ linked' = linked
             /\ flockOwner'[fd[p]] = flockOwner[fd[p]]
             /\ \A q \in Procs \ {p} : pc'[q] = pc[q] /\ fd'[q] = fd[q]]_vars

\* The oracle of one process runs under the lock it holds, while the other
\* process has tried the same lock (its open has emptied the lock file),
\* has failed and has ended its pass without a merge.
C37_Witness ==
    \E p, q \in Procs :
        /\ p # q
        /\ pc[q] = "running"
        /\ flockOwner[fd[q]] = q
        /\ linked[CurName(q)] = fd[q]
        /\ lockText[fd[q]] = 0
        /\ pc[p] = "done" /\ ~okPass[p] /\ count[p] = 0


\* Two merger processes that run pass after pass (merger.py 208-236) over
\* two finalized sessions that form one combined unit, and may be killed
\* while they hold the lock.  A process that can take a step takes one, and
\* ffmpeg does not fail for ever on a complete manifest.
InitKill ==
    /\ InitLock
    /\ sub = [f \in Sessions |-> f = 1]

NextKill ==
    \/ \E p \in Procs : MergerStep(p)
    \/ \E p \in Procs : Kill(p)

SpecKill ==
    /\ InitKill /\ [][NextKill]_vars
    /\ \A p \in Procs : WF_vars(MergerStep(p)) /\ SF_vars(OracleSucceeds(p))

\* C38: a lock file left behind by a holder that ended without releasing
\* locks nobody out.  A flock attempt fails only against a process that is
\* alive and holds the lock, and a unit whose merge was cut short gets its
\* output from a successful oracle run of a later pass.
C38_LeftoverLockHarmless ==
    /\ [][\A p \in Procs :
            (pc[p] = "flock" /\ pc'[p] # "flock" /\ flockOwner[fd[p]] # 0) =>
               \E q \in Procs \ {p} :
                  /\ flockOwner[fd[p]] = q
                  /\ pc[q] \in {"write", "recheck", "oracle", "running", "unlock"}
                  /\ fd[q] = fd[p]]_vars
    /\ <>(succCount[<<1, 2>>] > 0)

\* C39: every manifest a step writes holds each segment at most once, and
\* only segments of its session that validation found valid, whatever
\* incremental checks, failed finalization attempts and removals of tracking
\* records came before the write; a manifest a tick writes lists segments
\* that were submitted to the validator.
C39_ManifestEntriesUnique ==
    [][\A f \in Sessions :
          (filelist'[f] # filelist[f] /\ filelist'[f].exists) =>
             LET lines == filelist'[f].lines
             IN /\ \A j, k \in 1..Len(lines) : lines[j] = lines[k] => j = k
                /\ \A k \in 1..Len(lines) :
                      /\ lines[k] \in SegIds(f)
                      /\ check_ts_file(f, lines[k])
                      /\ now' # now => probes'[f][lines[k]] >= 1]_vars

\* C39 witness: a manifest was written for a session after a finalization
\* attempt had failed (a failing segment was validated twice), it lists a
\* segment that was written while the tracker ran, and the tracking record
\* of the session has been removed.
C39_Witness ==
    \E f \in Sessions :
        /\ filelist[f].exists
        /\ f \notin DOMAIN folder_states
        /\ \E i \in BadSegs(f) : probes[f][i] >= 2
        /\ \E k \in 1..Len(filelist[f].lines) : segs[f][filelist[f].lines[k]] > StartTime

\* ------------------------------------------------------------ upload_youtube.py

\* Successful uploads of one output counted in a behaviour.
MaxUploads == 2

\* The positions of a process inside _upload_all_pending_videos_internal
\* (line 569): between taking the upload lock and leaving the with-block.
UploadStage == {"scan", "handle", "upload", "mark"}

UpLiveInodes(lk, f) == ({lk} \cup {f[p] : p \in Procs}) \ {0}

UpFreshInode == CHOOSE i \in Inodes : i \notin UpLiveInodes(upLinked, upFd)

\* sorted(directory.glob("*.mp4")), line 592, without the outputs that have a
\* marker (lines 602-610): the outputs of single sessions in name order.
RECURSIVE SortedNames(_)
SortedNames(S) ==
    IF S = {} THEN <<>>
    ELSE LET n == CHOOSE m \in S : \A o \in S : m[1] <= o[1]
         IN <<n>> \o SortedNames(S \ {n})

is_uploaded(n) == n \in uploaded

\* A merger process has produced <n>.mp4 (merger.py 181-185); the runs of the
\* uploaders are observed with the outputs of single sessions.
EnvOutput(n) ==
    /\ n \notin outputs
    /\ outputs' = outputs \cup {n}
    /\ UNCHANGED <<dirOrder, dirDay, filelist, sub, tempMerged, segVars, trackVars,
                   lockVars, procVars, histVars>>

\* upload_all_pending_videos, line 563, FileLock.__enter__, line 53:
\* open(upload_global.lock, 'w') opens the file the path links to, or creates
\* it.
UploadLockOpen(p) ==
    /\ upPc[p] = "idle"
    /\ \E i \in {IF upLinked = 0 THEN UpFreshInode ELSE upLinked} :
          /\ upLinked' = i
          /\ upFd' = [upFd EXCEPT ![p] = i]
    /\ upPc' = [upPc EXCEPT ![p] = "flock"]
    /\ UNCHANGED <<fsVars, segs, globOrder, others, bad, report, is_live, writes,
                   upOwner, pending_files, uploaded, quotaExhausted, uploadCount,
                   trackVars, lockVars, procVars, histVars>>

\* FileLock.__enter__, lines 55-63: flock(LOCK_EX | LOCK_NB) on the opened
\* file.  It succeeds when no open file holds the flock of that inode; p
\* writes its pid and enters the with-block.  Otherwise p closes its file and
\* __enter__ returns None; __exit__ finds the closed file (line 69 raises,
\* line 74 passes) and upload_all_pending_videos returns at line 567.
UploadLockFlock(p) ==
    /\ upPc[p] = "flock"
    /\ IF upOwner[upFd[p]] = 0
       THEN /\ upOwner' = [upOwner EXCEPT ![upFd[p]] = p]
            /\ upPc' = [upPc EXCEPT ![p] = "scan"]
            /\ upFd' = upFd
       ELSE /\ upFd' = [upFd EXCEPT ![p] = 0]
            /\ upOwner' = [i \in Inodes |->
                  IF i \in UpLiveInodes(upLinked, upFd') THEN upOwner[i] ELSE 0]
            /\ upPc' = [upPc EXCEPT ![p] = "idle"]
    /\ UNCHANGED <<fsVars, segs, globOrder, others, bad, report, is_live, writes,
                   upLinked, pending_files, uploaded, quotaExhausted, uploadCount,
                   trackVars, lockVars, procVars, histVars>>

\* _upload_all_pending_videos_internal, lines 575-615: return when the quota
\* was found exhausted today; list the outputs without a marker.
UploadScan(p) ==
    /\ upPc[p] = "scan"
    /\ \E todo \in {IF quotaExhausted[p] THEN <<>>
                    ELSE SortedNames({n \in outputs : ~is_uploaded(n)})} :
          /\ pending_files' = [pending_files EXCEPT ![p] = todo]
          /\ upPc' = [upPc EXCEPT ![p] = IF todo = <<>> THEN "unlock" ELSE "handle"]
    /\ UNCHANGED <<fsVars, segs, globOrder, others, bad, report, is_live, writes,
                   upFd, upLinked, upOwner, uploaded, quotaExhausted, uploadCount,
                   trackVars, lockVars, procVars, histVars>>

\* The loop of lines 620-635 goes on after handle_merged_video returned True.
NextPending(p) ==
    /\ pending_files' = [pending_files EXCEPT ![p] = Tail(@)]
    /\ upPc' = [upPc EXCEPT ![p] = IF Tail(pending_files[p]) = <<>> THEN "unlock"
                                    ELSE "handle"]

\* handle_merged_video, lines 476-479: an output that has its marker by now is
\* skipped; otherwise upload_video is called (line 484).
HandleMergedVideo(p) ==
    /\ upPc[p] = "handle"
    /\ IF is_uploaded(Head(pending_files[p]))
       THEN NextPending(p)
       ELSE /\ upPc' = [upPc EXCEPT ![p] = "upload"]
            /\ pending_files' = pending_files
    /\ UNCHANGED <<fsVars, segs, globOrder, others, bad, report, is_live, writes,
                   upFd, upLinked, upOwner, uploaded, quotaExhausted, uploadCount,
                   trackVars, lockVars, procVars, histVars>>

\* upload_video, lines 430-464, returns to handle_merged_video, lines 484-499:
\* the upload succeeded and there is a video id, or it failed (quota, HTTP
\* error, no response): handle_merged_video returns False, the loop notes
\* the date and breaks (lines 626-630, YOUTUBE_ENABLE_QUOTA_MANAGEMENT).
UploadVideo(p) ==
    /\ upPc[p] = "upload"
    /\ \E ok \in BOOLEAN :
          IF ok
          THEN /\ uploadCount[Head(pending_files[p])] < MaxUploads
               /\ uploadCount' = [uploadCount EXCEPT ![Head(pending_files[p])] = @ + 1]
               /\ upPc' = [upPc EXCEPT ![p] = "mark"]
               /\ UNCHANGED <<pending_files, quotaExhausted>>
          ELSE /\ quotaExhausted' = [quotaExhausted EXCEPT ![p] = TRUE]
               /\ pending_files' = [pending_files EXCEPT ![p] = <<>>]
               /\ upPc' = [upPc EXCEPT ![p] = "unlock"]
               /\ uploadCount' = uploadCount
    /\ UNCHANGED <<fsVars, segs, globOrder, others, bad, report, is_live, writes,
                   upFd, upLinked, upOwner, uploaded,
                   trackVars, lockVars, procVars, histVars>>

\* handle_merged_video, lines 525-537: mark_as_uploaded writes the marker
\* (lines 222-228); the output stays where it is (YOUTUBE_DELETE_AFTER_UPLOAD
\* and YOUTUBE_MOVE_AFTER_UPLOAD are off).
MarkAsUploaded(p) ==
    /\ upPc[p] = "mark"
    /\ uploaded' = uploaded \cup {Head(pending_files[p])}
    /\ NextPending(p)
    /\ UNCHANGED <<fsVars, segs, globOrder, others, bad, report, is_live, writes,
                   upFd, upLinked, upOwner, quotaExhausted, uploadCount,
                   trackVars, lockVars, procVars, histVars>>

\* FileLock.__exit__, lines 69-70: flock(LOCK_UN) and close.
UploadLockUnlock(p) ==
    /\ upPc[p] = "unlock"
    /\ upFd' = [upFd EXCEPT ![p] = 0]
    /\ upOwner' = [i \in Inodes |->
          IF i \in UpLiveInodes(upLinked, upFd') /\ upOwner[i] # p THEN upOwner[i] ELSE 0]
    /\ upPc' = [upPc EXCEPT ![p] = "unlink"]
    /\ UNCHANGED <<fsVars, segs, globOrder, others, bad, report, is_live, writes,
                   upLinked, pending_files, uploaded, quotaExhausted, uploadCount,
                   trackVars, lockVars, procVars, histVars>>

\* FileLock.__exit__, lines 72-73: the lock path is unlinked when it exists,
\* whichever file it links to by now.
UploadLockUnlink(p) ==
    /\ upPc[p] = "unlink"
    /\ upLinked' = 0
    /\ upOwner' = [i \in Inodes |->
          IF i \in UpLiveInodes(upLinked', upFd) THEN upOwner[i] ELSE 0]
    /\ upPc' = [upPc EXCEPT ![p] = "idle"]
    /\ UNCHANGED <<fsVars, segs, globOrder, others, bad, report, is_live, writes,
                   upFd, pending_files, uploaded, quotaExhausted, uploadCount,
                   trackVars, lockVars, procVars, histVars>>

UploaderStep(p) ==
    \/ UploadLockOpen(p)
    \/ UploadLockFlock(p)
    \/ UploadScan(p)
    \/ HandleMergedVideo(p)
    \/ UploadVideo(p)
    \/ MarkAsUploaded(p)
    \/ UploadLockUnlock(p)
    \/ UploadLockUnlink(p)

\* Processes that run upload_all_pending_videos again and again (merger.py
\* 208-229, upload_youtube.py 679-684) in the course of one day, while merged
\* outputs appear.
InitUpload == InitLock

NextUpload ==
    \/ \E p \in Procs : UploaderStep(p)
    \/ \E f \in Sessions : EnvOutput(<<f>>)

SpecUpload == InitUpload /\ [][NextUpload]_vars

\* C40: whatever the interleaving of the processes that run
\* upload_all_pending_videos, at most one of them is inside the upload stage
\* at a time, no output is uploaded successfully more than once, and no
\* upload succeeds for an output that has its .uploaded marker.
C40_UploadOnce ==
    /\ [](Cardinality({p \in Procs : upPc[p] \in UploadStage}) <= 1)
    /\ [](\A n \in Names : uploadCount[n] <= 1)
    /\ [][\A n \in Names : uploadCount'[n] > uploadCount[n] => ~is_uploaded(n)]_vars

====
